---- MODULE Spec2Model ----
(***************************************************************************)
(* Point-of-sale backend: the handlers createSale, createStockAdjustment,  *)
(* createProduct, updateProduct, createUser and loginUser and the queries  *)
(* getProductByBarcode, getLowStockProducts, getTransactions,              *)
(* getSalesReport, getProfitLossReport and generateReceipt over the tables *)
(* of server/src/db/schema.ts, and the client's sales screen               *)
(* (SalesInterface) that sells the cart and downloads the receipt.         *)
(*                                                                         *)
(* Every handler is an async function: each awaited storage statement is   *)
(* one step, and the steps of concurrent requests interleave.  The         *)
(* database enforces its declared constraints (primary keys from serial    *)
(* sequences, UNIQUE columns, foreign keys, numeric(10,2) columns) per     *)
(* statement.                                                              *)
(*                                                                         *)
(* Units: money is counted in minor units (cents), so the numeric(10,2)    *)
(* value 39.85 is the integer 3985.  tax_rate is counted in hundredths, so *)
(* 0.15 is 15; a tax of subtotal * tax_rate is then a number of hundredths *)
(* of a cent until the numeric(10,2) column rounds it.                     *)
(***************************************************************************)
EXTENDS Integers, Sequences, FiniteSets, TLC

(* ------------------------------ bounds -------------------------------- *)

\* Requests issued in one behaviour; each may overlap the others.
MaxCalls == 2
\* Last value of the millisecond clock (Date.now(), new Date(), now()).
MaxClock == 1
\* Values the products id sequence may hand out.
MaxProducts == 3

(* --------------------------- value encodings -------------------------- *)

\* SQL NULL / JavaScript null.
Null == "<null>"
\* A property absent from the input object (JavaScript undefined).
Undefined == "<undefined>"

Calls == 1..MaxCalls

\* The slot of the read-only handlers: they run one statement, so the latest
\* query and its answer are kept in one slot beside the writing requests.
Query == 0

Slots == {Query} \cup Calls

VARIABLES
    users,              \* usersTable:            id -> row
    products,           \* productsTable:         id -> row
    transactions,       \* transactionsTable:     id -> row
    transaction_items,  \* transactionItemsTable: id -> row
    stock_adjustments,  \* stockAdjustmentsTable: id -> row
    seq,                \* last value handed out by each table's serial sequence
    clock,              \* the wall clock, in milliseconds
    calls,              \* the requests: handler, input, position, locals, outcome
    pre,                \* productsTable as it was when the latest request began
    screen              \* the state of the client's sales screen

vars == <<users, products, transactions, transaction_items, stock_adjustments,
          seq, clock, calls, pre, screen>>

tables == <<users, products, transactions, transaction_items, stock_adjustments, seq>>

(* ------------------------------ helpers ------------------------------- *)

\* The table t with the row r stored under the key id.
WithRow(t, id, r) == [k \in (DOMAIN t) \cup {id} |-> IF k = id THEN r ELSE t[k]]

Abs(n) == IF n < 0 THEN -n ELSE n

Max(a, b) == IF a >= b THEN a ELSE b

\* A numeric(10,2) column keeps two decimals: the decimal text written by
\* Number.prototype.toString is rounded to the nearest cent.  num / den is the
\* exact value in cents.  On an exact half cent the binary floating-point
\* product or sum may sit on either side of the tie, so both neighbours are
\* possible outcomes.
NumericRound(num, den) ==
    LET lo == num \div den
        r  == num % den
    IN  IF 2 * r < den THEN {lo}
        ELSE IF 2 * r > den THEN {lo + 1}
        ELSE {lo, lo + 1}

\* The value of an optional property of an input object.
Opt(input, f) == IF f \in DOMAIN input THEN input[f] ELSE Undefined

\* JavaScript truthiness of an optional nullable string.
Truthy(s) == s # Undefined /\ s # Null /\ s # ""

(* ------------------------------ requests ------------------------------ *)

\* A request slot before its request is issued.
NoCall == [op |-> "none", pc |-> "idle", userId |-> 0, input |-> <<>>,
           loc |-> <<>>, err |-> "", result |-> <<>>]

InFlight(call) == call.pc \notin {"idle", "done", "failed"}

\* The sales screen after its first render and its mount effect: the useState
\* initial values, loadProducts called and awaiting getProducts, and no
\* other handler running.  A value that may be null is kept as a sequence of
\* at most one element; the calls of a handler that await the server are
\* kept in the order they were made.
Mounted ==
    [products |-> <<>>, cartItems |-> <<>>, barcodeInput |-> "",
     paymentMethod |-> "cash", discount |-> 0,
     isProcessing |-> FALSE, showReceipt |-> FALSE, lastTransaction |-> <<>>,
     loadProducts |-> << [pc |-> "getProducts", awaited |-> FALSE, result |-> <<>>] >>,
     handleBarcodeSearch |-> <<>>,
     processSale |-> [pc |-> "idle"],
     downloadReceipt |-> <<>>,
     receiptText |-> <<>>]

\* Requests are issued in the order of their slots.
CanBegin(c) ==
    /\ calls[c].pc = "idle"
    /\ \A d \in Calls : d < c => calls[d].pc # "idle"

\* Request c is the call handler(input, userId).  Where the synchronous
\* prefix of a handler reads nothing shared, the call and its first statement
\* are one step; createSale reads the clock before its first statement, so
\* its call is a step of its own.
Called(c, op, userId, input, loc) ==
    [op |-> op, pc |-> "called", userId |-> userId, input |-> input,
     loc |-> loc, err |-> "", result |-> <<>>]

\* The step taken by request c: its next statement when it stands at pc, or
\* the first statement of a fresh call.
AtStart(c) == calls[c].pc = "idle"

Goto(c, call, pc, loc) ==
    /\ calls' = [calls EXCEPT ![c] = [call EXCEPT !.pc = pc, !.loc = loc]]
    /\ pre' = IF AtStart(c) THEN products ELSE pre
    /\ UNCHANGED screen

Fail(c, call, err) ==
    /\ calls' = [calls EXCEPT ![c] = [call EXCEPT !.pc = "failed", !.err = err]]
    /\ pre' = IF AtStart(c) THEN products ELSE pre
    /\ UNCHANGED screen

Return(c, call, result) ==
    /\ calls' = [calls EXCEPT ![c] = [call EXCEPT !.pc = "done", !.result = result]]
    /\ pre' = IF AtStart(c) THEN products ELSE pre
    /\ UNCHANGED screen

(* ------------------------------ createSale ---------------------------- *)

\* One input item: {product_id, quantity, unit_price}.
Item(p, q, u) == [product_id |-> p, quantity |-> q, unit_price |-> u]

SaleInput(items, discount_amount, tax_rate) ==
    [items |-> items, payment_method |-> "card",
     discount_amount |-> discount_amount, tax_rate |-> tax_rate]

\* A sale of two products with a discount, and a sale of one item.
SaleOfTwoProducts == SaleInput(<< Item(1, 2, 1500), Item(2, 3, 800) >>, 500, 15)

SaleOfOneItem == SaleInput(<< Item(1, 2, 1500) >>, 0, 10)

\* The sale inputs: those two, one product in two items and sold beyond its
\* stock, an item whose product does not exist, and amounts that end on half
\* a cent with a discount above the subtotal.
SaleInputs ==
    { SaleOfTwoProducts,
      SaleOfOneItem,
      SaleInput(<< Item(2, 1, 800), Item(2, 3, 800) >>, 0, 0),
      SaleInput(<< Item(1, 1, 1500), Item(9, 1, 100) >>, 0, 0),
      SaleInput(<< Item(1, 1, 115) >>, 500, 10) }

\* input.items.reduce((sum, item) => sum + item.quantity * item.unit_price, 0)
RECURSIVE SaleReduce(_, _, _)
SaleReduce(items, k, sum) ==
    IF k > Len(items) THEN sum
    ELSE SaleReduce(items, k + 1, sum + items[k].quantity * items[k].unit_price)

\* Mutant of SaleSubtotal: the quantities are left out of the sum.
RECURSIVE SaleReduceNoQuantity(_, _, _)
SaleReduceNoQuantity(items, k, sum) ==
    IF k > Len(items) THEN sum
    ELSE SaleReduceNoQuantity(items, k + 1, sum + items[k].unit_price)

SaleSubtotalNoQuantity(items) == SaleReduceNoQuantity(items, 1, 0)

SaleSubtotal(items) == SaleReduce(items, 1, 0)

\* subtotal * input.tax_rate, in hundredths of a cent.
SaleTaxAmount(subtotal, tax_rate) == subtotal * tax_rate

\* Mutant of SaleTotalAmount: the total is clamped at zero.
SaleTotalAmountClamped(subtotal, taxAmount, discount_amount) ==
    Max(0, subtotal * 100 + taxAmount - discount_amount * 100)

\* subtotal + taxAmount - input.discount_amount, in hundredths of a cent.
SaleTotalAmount(subtotal, taxAmount, discount_amount) ==
    subtotal * 100 + taxAmount - discount_amount * 100

\* `RCP-${timestamp}`
ReceiptNumber(timestamp) == <<"RCP-", timestamp>>

\* Mutant of SaleStockAfter: the decrement is clamped at zero.
SaleStockAfterClamped(stock_quantity, quantity) == Max(0, stock_quantity - quantity)

\* stock_quantity: sql`${productsTable.stock_quantity} - ${item.quantity}`
SaleStockAfter(stock_quantity, quantity) == stock_quantity - quantity

\* transactionsTable: receipt_number is unique and user_id references
\* users.id.  The database finds a taken receipt_number as it puts the row in
\* the unique index, and looks at the reference only after that, at the end of
\* the statement.  (The amounts of the inputs below are far from the eight
\* integer digits at which a numeric(10,2) column overflows.)
TransactionInsertError(userId, receipt_number) ==
    IF \E t \in DOMAIN transactions :
           transactions[t].receipt_number = receipt_number
    THEN "UniqueViolation"
    ELSE IF userId \notin DOMAIN users THEN "ForeignKeyViolation"
    ELSE ""

\* Mutant of ItemInsertError: product_id references nothing.
ItemInsertErrorAnyProduct(transaction_id, product_id) ==
    IF transaction_id \notin DOMAIN transactions
    THEN "ForeignKeyViolation"
    ELSE ""

\* transactionItemsTable: transaction_id references transactions.id and
\* product_id references products.id.
ItemInsertError(transaction_id, product_id) ==
    IF transaction_id \notin DOMAIN transactions \/ product_id \notin DOMAIN products
    THEN "ForeignKeyViolation"
    ELSE ""

\* createSale: publicProcedure ... .mutation(({ input }) => createSale(input, 1))
RouterUserId == 1

\* The user ids createSale is called with: the one the router passes, and 7,
\* the id of no user, since the handler takes any number.
SaleUserIds == {RouterUserId, 7}

\* The call createSale(input, userId) up to its first await: the amounts, and
\* const timestamp = Date.now() for the receipt number.
SaleCallOf(c, inputs, userIds) ==
    /\ CanBegin(c)
    /\ \E input \in inputs, userId \in userIds :
         LET subtotal    == SaleSubtotal(input.items)
             taxAmount   == SaleTaxAmount(subtotal, input.tax_rate)
             totalAmount == SaleTotalAmount(subtotal, taxAmount, input.discount_amount)
             loc         == [timestamp |-> clock, taxAmount |-> taxAmount,
                             totalAmount |-> totalAmount,
                             transaction_id |-> 0, i |-> 0]
             call        == Called(c, "createSale", userId, input, loc)
         IN  Goto(c, call, "insert_transaction", loc)
    /\ UNCHANGED <<tables, clock>>

\* createSale called with one of the inputs SaleInputs.
SaleCall(c) == SaleCallOf(c, SaleInputs, SaleUserIds)

\* db.insert(transactionsTable).values({...}).returning(): the receipt number
\* is the one made at the call, created_at and updated_at are the database's
\* now() at the insert.
SaleInsertTransaction(c) ==
    /\ calls[c].op = "createSale" /\ calls[c].pc = "insert_transaction"
    /\ LET call    == calls[c]
           input   == call.input
           receipt == ReceiptNumber(call.loc.timestamp)
           id      == seq.transactions + 1
           err     == TransactionInsertError(call.userId, receipt)
       IN  /\ seq' = [seq EXCEPT !.transactions = id]
           /\ \E total \in NumericRound(call.loc.totalAmount, 100),
                 tax   \in NumericRound(call.loc.taxAmount, 100) :
                IF err # ""
                THEN /\ Fail(c, call, err)
                     /\ UNCHANGED transactions
                ELSE /\ transactions' = WithRow(transactions, id,
                            [id |-> id, user_id |-> call.userId,
                             total_amount |-> total, tax_amount |-> tax,
                             discount_amount |-> input.discount_amount,
                             payment_method |-> input.payment_method,
                             status |-> "completed",
                             receipt_number |-> receipt,
                             created_at |-> clock, updated_at |-> clock])
                     /\ Goto(c, call, "insert_item",
                             [call.loc EXCEPT !.transaction_id = id, !.i = 1])
    /\ UNCHANGED <<users, products, transaction_items, stock_adjustments, clock>>

\* for (const item of input.items): db.insert(transactionItemsTable).values({...})
SaleInsertItem(c) ==
    /\ calls[c].op = "createSale" /\ calls[c].pc = "insert_item"
    /\ LET call == calls[c]
           item == call.input.items[call.loc.i]
           id   == seq.transaction_items + 1
           err  == ItemInsertError(call.loc.transaction_id, item.product_id)
       IN  /\ seq' = [seq EXCEPT !.transaction_items = id]
           /\ IF err # ""
              THEN /\ Fail(c, call, err)
                   /\ UNCHANGED transaction_items
              ELSE /\ transaction_items' = WithRow(transaction_items, id,
                          [id |-> id, transaction_id |-> call.loc.transaction_id,
                           product_id |-> item.product_id,
                           quantity |-> item.quantity,
                           unit_price |-> item.unit_price,
                           total_price |-> item.quantity * item.unit_price,
                           created_at |-> clock])
                   /\ Goto(c, call, "update_stock", call.loc)
    /\ UNCHANGED <<users, products, transactions, stock_adjustments, clock>>

\* Mutant of SaleUpdateStock: the new stock is computed from the stock read
\* when the latest call began, not by the database from the stored column.
SaleUpdateStockStale(c) ==
    /\ calls[c].op = "createSale" /\ calls[c].pc = "update_stock"
    /\ LET call == calls[c]
           item == call.input.items[call.loc.i]
       IN  /\ products' = [p \in DOMAIN products |->
                  IF p = item.product_id
                  THEN [products[p] EXCEPT
                          !.stock_quantity =
                              SaleStockAfter(pre[p].stock_quantity, item.quantity)]
                  ELSE products[p]]
           /\ IF call.loc.i < Len(call.input.items)
              THEN Goto(c, call, "insert_item", [call.loc EXCEPT !.i = @ + 1])
              ELSE Return(c, call, transactions[call.loc.transaction_id])
    /\ UNCHANGED <<users, transactions, transaction_items, stock_adjustments,
                   seq, clock>>

\* db.update(productsTable).set({stock_quantity: sql`stock_quantity - quantity`})
\*   .where(eq(productsTable.id, item.product_id)); then the next item, or return.
SaleUpdateStock(c) ==
    /\ calls[c].op = "createSale" /\ calls[c].pc = "update_stock"
    /\ LET call == calls[c]
           item == call.input.items[call.loc.i]
       IN  /\ products' = [p \in DOMAIN products |->
                  IF p = item.product_id
                  THEN [products[p] EXCEPT
                          !.stock_quantity = SaleStockAfter(@, item.quantity)]
                  ELSE products[p]]
           /\ IF call.loc.i < Len(call.input.items)
              THEN Goto(c, call, "insert_item", [call.loc EXCEPT !.i = @ + 1])
              ELSE Return(c, call, transactions[call.loc.transaction_id])
    /\ UNCHANGED <<users, transactions, transaction_items, stock_adjustments,
                   seq, clock>>

(* ------------------------ createStockAdjustment ---------------------- *)

AdjustmentTypes == {"increase", "decrease", "recount"}

\* quantity_change is any integer: below zero, zero, below and above the stock.
AdjustmentQuantities == {-5, 0, 10, 150}

\* Product 1 exists; no product has the id 9.
AdjustmentInputs ==
    [product_id : {1}, adjustment_type : AdjustmentTypes,
     quantity_change : AdjustmentQuantities, reason : {"Stock count"}]
    \cup [product_id : {9}, adjustment_type : {"increase"},
          quantity_change : {10}, reason : {"Stock count"}]

\* Mutant of NewStockQuantity: the decrease is not clamped at zero.
NewStockQuantityUnclamped(adjustment_type, currentStock, quantity_change) ==
    CASE adjustment_type = "increase" -> currentStock + Abs(quantity_change)
      [] adjustment_type = "decrease" -> currentStock - Abs(quantity_change)
      [] adjustment_type = "recount"  -> Max(0, quantity_change)

\* switch (input.adjustment_type) { ... }
NewStockQuantity(adjustment_type, currentStock, quantity_change) ==
    CASE adjustment_type = "increase" -> currentStock + Abs(quantity_change)
      [] adjustment_type = "decrease" -> Max(0, currentStock - Abs(quantity_change))
      [] adjustment_type = "recount"  -> Max(0, quantity_change)

\* The largest value of an integer column.
IntegerMax == 2147483647

\* newStockQuantity is a JavaScript number and may pass the range of the
\* integer column stock_quantity: only an increase can, as a decrease and a
\* recount end between 0 and a stored or inserted integer.  Such a number is
\* kept as this flag beside the local, which then holds IntegerMax.
StockOutOfRange(adjustment_type, currentStock, quantity_change) ==
    /\ adjustment_type = "increase"
    /\ currentStock > IntegerMax - Abs(quantity_change)

\* db.select().from(productsTable).where(eq(productsTable.id, id)): found?
ProductFound(id) == id \in DOMAIN products

\* stockAdjustmentsTable: product_id references products.id and user_id
\* references users.id.
AdjustmentInsertError(product_id, userId) ==
    IF product_id \notin DOMAIN products \/ userId \notin DOMAIN users
    THEN "ForeignKeyViolation"
    ELSE ""

\* Mutant of AdjustmentRow: the audit row records the absolute value.
AdjustmentRowAbs(id, input, userId, now) ==
    [id |-> id, product_id |-> input.product_id, user_id |-> userId,
     adjustment_type |-> input.adjustment_type,
     quantity_change |-> Abs(input.quantity_change),
     reason |-> input.reason, created_at |-> now]

\* The values({...}) of the audit row.
AdjustmentRow(id, input, userId, now) ==
    [id |-> id, product_id |-> input.product_id, user_id |-> userId,
     adjustment_type |-> input.adjustment_type,
     quantity_change |-> input.quantity_change,
     reason |-> input.reason, created_at |-> now]

\* Mutant of AdjSelectProduct: the not-found check is left out.
AdjSelectProductUnchecked(c) ==
    /\ CanBegin(c)
    /\ \E input \in AdjustmentInputs, userId \in DOMAIN users :
         LET call == Called(c, "createStockAdjustment", userId, input,
                            [currentStock |-> 0, newStockQuantity |-> 0,
                             outOfRange |-> FALSE,
                             adjustment_id |-> 0, updated_at |-> 0])
             currentStock == IF input.product_id \in DOMAIN products
                             THEN products[input.product_id].stock_quantity
                             ELSE 0
         IN  Goto(c, call, "insert_adjustment",
                  [call.loc EXCEPT
                     !.currentStock = currentStock,
                     !.outOfRange =
                         StockOutOfRange(input.adjustment_type, currentStock,
                                         input.quantity_change),
                     !.newStockQuantity =
                         IF StockOutOfRange(input.adjustment_type, currentStock,
                                            input.quantity_change)
                         THEN IntegerMax
                         ELSE NewStockQuantity(input.adjustment_type,
                                               currentStock,
                                               input.quantity_change)])
    /\ UNCHANGED <<tables, clock>>

\* The call and its first statement: the product lookup, the not-found check
\* and the switch.
AdjSelectProduct(c) ==
    /\ CanBegin(c)
    /\ \E input \in AdjustmentInputs, userId \in DOMAIN users :
         LET call == Called(c, "createStockAdjustment", userId, input,
                            [currentStock |-> 0, newStockQuantity |-> 0,
                             outOfRange |-> FALSE,
                             adjustment_id |-> 0, updated_at |-> 0])
         IN  IF ~ProductFound(input.product_id)
             THEN Fail(c, call, "NotFound")
             ELSE LET currentStock == products[input.product_id].stock_quantity
                  IN  Goto(c, call, "insert_adjustment",
                           [call.loc EXCEPT
                              !.currentStock = currentStock,
                              !.outOfRange =
                                  StockOutOfRange(input.adjustment_type,
                                                  currentStock,
                                                  input.quantity_change),
                              !.newStockQuantity =
                                  IF StockOutOfRange(input.adjustment_type,
                                                     currentStock,
                                                     input.quantity_change)
                                  THEN IntegerMax
                                  ELSE NewStockQuantity(input.adjustment_type,
                                                        currentStock,
                                                        input.quantity_change)])
    /\ UNCHANGED <<tables, clock>>

\* db.insert(stockAdjustmentsTable).values({...}).returning(), as the database
\* runs it.
AdjInsertAdjustment(c) ==
    /\ calls[c].op = "createStockAdjustment" /\ calls[c].pc = "insert_adjustment"
    /\ LET call == calls[c]
           id   == seq.stock_adjustments + 1
           err  == AdjustmentInsertError(call.input.product_id, call.userId)
       IN  /\ seq' = [seq EXCEPT !.stock_adjustments = id]
           /\ IF err # ""
              THEN /\ Fail(c, call, err)
                   /\ UNCHANGED stock_adjustments
              ELSE /\ stock_adjustments' = WithRow(stock_adjustments, id,
                          AdjustmentRow(id, call.input, call.userId, clock))
                   /\ Goto(c, call, "insert_returned",
                           [call.loc EXCEPT !.adjustment_id = id])
    /\ UNCHANGED <<users, products, transactions, transaction_items, clock>>

\* The handler resumes with adjustmentResult and builds the update, reading
\* updated_at: new Date().
AdjInsertReturned(c) ==
    /\ calls[c].op = "createStockAdjustment" /\ calls[c].pc = "insert_returned"
    /\ Goto(c, calls[c], "update_product",
            [calls[c].loc EXCEPT !.updated_at = clock])
    /\ UNCHANGED <<tables, clock>>

\* db.update(productsTable).set({stock_quantity: newStockQuantity, updated_at})
\*   .where(eq(productsTable.id, input.product_id)); return adjustmentResult[0].
\* The database refuses a stock_quantity beyond the range of its column.
AdjUpdateProduct(c) ==
    /\ calls[c].op = "createStockAdjustment" /\ calls[c].pc = "update_product"
    /\ LET call == calls[c]
       IN  IF call.loc.outOfRange
           THEN /\ Fail(c, call, "NumericValueOutOfRange")
                /\ UNCHANGED products
           ELSE /\ products' = [p \in DOMAIN products |->
                       IF p = call.input.product_id
                       THEN [products[p] EXCEPT
                               !.stock_quantity = call.loc.newStockQuantity,
                               !.updated_at = call.loc.updated_at]
                       ELSE products[p]]
                /\ Return(c, call, stock_adjustments[call.loc.adjustment_id])
    /\ UNCHANGED <<users, transactions, transaction_items, stock_adjustments,
                   seq, clock>>

(* ----------------------------- createProduct -------------------------- *)

\* barcode: omitted, null, empty, the barcode of product 1, a new barcode.
ProductBarcodes == {Null, "", "TEST123456", "UNIQUE001"}

CreateProductInputs ==
    [name : {"New Product"}, cost_price : {500}, selling_price : {999},
     stock_quantity : {30}, min_stock_level : {0}]
    \cup [name : {"New Product"}, barcode : ProductBarcodes,
          cost_price : {500}, selling_price : {999},
          stock_quantity : {30}, min_stock_level : {0}]

\* input.description || null, input.category || null
TextOrNull(text) == IF Truthy(text) THEN text ELSE Null

\* db.select().from(productsTable).where(eq(productsTable.barcode, barcode)).limit(1)
BarcodeExists(barcode) ==
    \E p \in DOMAIN products : products[p].barcode = barcode

\* Mutant of BarcodeOrNull: input.barcode ?? null keeps the empty string.
BarcodeOrNullish(barcode) == IF barcode = Undefined THEN Null ELSE barcode

\* input.barcode || null
BarcodeOrNull(barcode) == IF Truthy(barcode) THEN barcode ELSE Null

\* Mutant of BarcodeUniqueError: the column carries no unique constraint.
BarcodeNotUnique(id, barcode) == ""

\* productsTable: barcode is unique; NULLs never collide.  id is the row
\* written (0 for a row being inserted).
BarcodeUniqueError(id, barcode) ==
    IF barcode # Null
       /\ \E p \in DOMAIN products : p # id /\ products[p].barcode = barcode
    THEN "UniqueViolation"
    ELSE ""

\* The call with a barcode and its first statement:
\* if (input.barcode) { select ...; if (existingProduct.length > 0) throw }
ProdCheckBarcode(c) ==
    /\ CanBegin(c)
    /\ seq.products < MaxProducts
    /\ \E input \in CreateProductInputs :
         /\ Truthy(Opt(input, "barcode"))
         /\ LET call == Called(c, "createProduct", 0, input, <<>>)
            IN  IF BarcodeExists(input.barcode)
                THEN Fail(c, call, "BarcodeExists")
                ELSE Goto(c, call, "insert_product", <<>>)
    /\ UNCHANGED <<tables, clock>>

\* db.insert(productsTable).values({...}).returning(), by the call `call`.
ProdInsert(c, call) ==
    LET id      == seq.products + 1
        barcode == BarcodeOrNull(Opt(call.input, "barcode"))
        err     == BarcodeUniqueError(0, barcode)
        row     == [id |-> id, name |-> call.input.name,
                    description |-> TextOrNull(Opt(call.input, "description")),
                    barcode |-> barcode,
                    cost_price |-> call.input.cost_price,
                    selling_price |-> call.input.selling_price,
                    stock_quantity |-> call.input.stock_quantity,
                    min_stock_level |-> call.input.min_stock_level,
                    category |-> TextOrNull(Opt(call.input, "category")),
                    created_at |-> clock, updated_at |-> clock]
    IN  /\ seq' = [seq EXCEPT !.products = id]
        /\ IF err # ""
           THEN /\ Fail(c, call, err)
                /\ UNCHANGED products
           ELSE /\ products' = WithRow(products, id, row)
                /\ Return(c, call, row)

\* The insert: the first statement of a call without a barcode, the second of
\* a call whose barcode passed the check.
ProdInsertProduct(c) ==
    /\ \/ /\ CanBegin(c)
          /\ seq.products < MaxProducts
          /\ \E input \in CreateProductInputs :
               /\ ~Truthy(Opt(input, "barcode"))
               /\ ProdInsert(c, Called(c, "createProduct", 0, input, <<>>))
       \/ /\ calls[c].op = "createProduct" /\ calls[c].pc = "insert_product"
          /\ ProdInsert(c, calls[c])
    /\ UNCHANGED <<users, transactions, transaction_items, stock_adjustments, clock>>

(* ----------------------------- updateProduct -------------------------- *)

\* The optional fields of the input: an omitted field is absent from the record.
UpdatePatches ==
    { [id : {1, 2, 9}],
      [id : {1, 2}, barcode : {Null, "", "TEST123456"}],
      [id : {1, 2}, stock_quantity : {0}],
      [id : {1, 2}, min_stock_level : {3}],
      [id : {1}, description : {Null}, category : {Null}],
      [id : {2}, name : {"Renamed"}, cost_price : {700}] }

UpdateProductInputs == UNION UpdatePatches

\* Mutant of Merged: if (input.f) ..., so that an explicit null of a nullable
\* text field is skipped like an omitted one.
MergedTruthy(row, input, now) ==
    [f \in DOMAIN row |->
        IF f = "updated_at" THEN now
        ELSE IF f # "id" /\ f \in DOMAIN input
                /\ (f \in {"description", "barcode", "category"} => input[f] # Null)
             THEN input[f]
        ELSE row[f]]

\* if (input.f !== undefined) updateData.f = input.f, for every field f of the
\* input, and updated_at: new Date().
Merged(row, input, now) ==
    [f \in DOMAIN row |->
        IF f = "updated_at" THEN now
        ELSE IF f # "id" /\ f \in DOMAIN input THEN input[f]
        ELSE row[f]]

\* The call and its first statement, the select of the existence check, as
\* the database runs it.
UpdSelectProduct(c) ==
    /\ CanBegin(c)
    /\ \E input \in UpdateProductInputs :
         LET call == Called(c, "updateProduct", 0, input, [updated_at |-> 0])
         IN  IF ~ProductFound(input.id)
             THEN Fail(c, call, "NotFound")
             ELSE Goto(c, call, "select_returned", call.loc)
    /\ UNCHANGED <<tables, clock>>

\* The handler resumes with existingProducts and builds updateData, reading
\* updated_at: new Date().
UpdSelectReturned(c) ==
    /\ calls[c].op = "updateProduct" /\ calls[c].pc = "select_returned"
    /\ Goto(c, calls[c], "update_product", [updated_at |-> clock])
    /\ UNCHANGED <<tables, clock>>

\* db.update(productsTable).set(updateData).where(eq(productsTable.id, input.id))
\*   .returning()
UpdUpdateProduct(c) ==
    /\ calls[c].op = "updateProduct" /\ calls[c].pc = "update_product"
    /\ LET call == calls[c]
           id   == call.input.id
           row  == Merged(products[id], call.input, call.loc.updated_at)
           err  == BarcodeUniqueError(id, row.barcode)
       IN  IF err # ""
           THEN /\ Fail(c, call, err)
                /\ UNCHANGED products
           ELSE /\ products' = [products EXCEPT ![id] = row]
                /\ Return(c, call, row)
    /\ UNCHANGED <<users, transactions, transaction_items, stock_adjustments,
                   seq, clock>>

(* -------------------------------- clock ------------------------------- *)

Tick ==
    /\ clock < MaxClock
    /\ clock' = clock + 1
    /\ UNCHANGED <<tables, calls, pre, screen>>

(* ---------------------------- specification --------------------------- *)

\* A password_hash column value: the text of a hash made by algorithm alg
\* from the password `of` ("" when the text was not made from a password).
Hash(alg, of, text) == [alg |-> alg, of |-> of, text |-> text]

\* The user the test fixtures insert: its password_hash is a literal text,
\* and created_at and updated_at are the database's now() at the insert.
TestCashier ==
    [id |-> 1, username |-> "test_cashier", email |-> "cashier@test.com",
     password_hash |-> Hash("none", "", "hashed_password"),
     role |-> "cashier", is_active |-> TRUE,
     created_at |-> 0, updated_at |-> 0]

\* Two rows of productsTable: a product with every column set, and a product
\* with its nullable columns NULL and its stock below its minimum level.
SeededProducts ==
         (1 :> [id |-> 1, name |-> "Test Product",
                description |-> "A product for testing",
                barcode |-> "TEST123456",
                cost_price |-> 1000, selling_price |-> 1500,
                stock_quantity |-> 100, min_stock_level |-> 10,
                category |-> "Electronics",
                created_at |-> 0, updated_at |-> 0])
         @@
         (2 :> [id |-> 2, name |-> "Low Stock Product",
                description |-> Null, barcode |-> Null,
                cost_price |-> 500, selling_price |-> 800,
                stock_quantity |-> 2, min_stock_level |-> 5,
                category |-> Null,
                created_at |-> 0, updated_at |-> 0])

\* A database with one cashier and the two products, and nothing sold or
\* adjusted yet.
Init ==
    /\ users = (1 :> TestCashier)
    /\ products = SeededProducts
    /\ transactions = <<>>
    /\ transaction_items = <<>>
    /\ stock_adjustments = <<>>
    /\ seq = [users |-> 1, products |-> 2, transactions |-> 0,
              transaction_items |-> 0, stock_adjustments |-> 0]
    /\ clock = 0
    /\ calls = [c \in Slots |-> NoCall]
    /\ pre = products
    /\ screen = Mounted

Next ==
    \/ \E c \in Calls : SaleCall(c)
    \/ \E c \in Calls : SaleInsertTransaction(c)
    \/ \E c \in Calls : SaleInsertItem(c)
    \/ \E c \in Calls : SaleUpdateStock(c)
    \/ \E c \in Calls : AdjSelectProduct(c)
    \/ \E c \in Calls : AdjInsertAdjustment(c)
    \/ \E c \in Calls : AdjInsertReturned(c)
    \/ \E c \in Calls : AdjUpdateProduct(c)
    \/ \E c \in Calls : ProdCheckBarcode(c)
    \/ \E c \in Calls : ProdInsertProduct(c)
    \/ \E c \in Calls : UpdSelectProduct(c)
    \/ \E c \in Calls : UpdSelectReturned(c)
    \/ \E c \in Calls : UpdUpdateProduct(c)
    \/ Tick

Spec == Init /\ [][Next]_vars

\* The requests served one after another: a request is issued only when every
\* earlier one has returned or failed.
Serial == Cardinality({c \in Calls : InFlight(calls[c])}) <= 1

NextSeq ==
    \/ \E c \in Calls : SaleCall(c) /\ Serial'
    \/ \E c \in Calls : SaleInsertTransaction(c) /\ Serial'
    \/ \E c \in Calls : SaleInsertItem(c) /\ Serial'
    \/ \E c \in Calls : SaleUpdateStock(c) /\ Serial'
    \/ \E c \in Calls : AdjSelectProduct(c) /\ Serial'
    \/ \E c \in Calls : AdjInsertAdjustment(c) /\ Serial'
    \/ \E c \in Calls : AdjInsertReturned(c) /\ Serial'
    \/ \E c \in Calls : AdjUpdateProduct(c) /\ Serial'
    \/ \E c \in Calls : ProdCheckBarcode(c) /\ Serial'
    \/ \E c \in Calls : ProdInsertProduct(c) /\ Serial'
    \/ \E c \in Calls : UpdSelectProduct(c) /\ Serial'
    \/ \E c \in Calls : UpdSelectReturned(c) /\ Serial'
    \/ \E c \in Calls : UpdUpdateProduct(c) /\ Serial'
    \/ Tick

SpecSeq == Init /\ [][NextSeq]_vars

(* ------------------------------- queries ------------------------------ *)

\* The query handler(input) and the rows it returns; a handler that returns
\* one row or null returns << row >> or << >>.
Answer(op, input, result) ==
    /\ calls' = [calls EXCEPT ![Query] =
                    [op |-> op, pc |-> "done", userId |-> 0, input |-> input,
                     loc |-> <<>>, err |-> "", result |-> result]]
    /\ UNCHANGED <<tables, clock, pre, screen>>

(* -------------------------- getProductByBarcode ----------------------- *)

\* barcodeSearchInputSchema: any string, the empty one included.
BarcodeSearches == {"", "TEST123456", "UNIQUE001", "nonexistent-barcode"}

\* db.select().from(productsTable).where(eq(productsTable.barcode, input.barcode)):
\* a NULL barcode equals nothing.
BarcodeMatches(barcode) ==
    {p \in DOMAIN products :
        products[p].barcode # Null /\ products[p].barcode = barcode}

\* if (result.length === 0) return null; return result[0]: the select has no
\* ORDER BY, so result[0] is any of the matching rows.
GetProductByBarcode ==
    \E barcode \in BarcodeSearches :
        LET result == BarcodeMatches(barcode)
        IN  IF result = {}
            THEN Answer("getProductByBarcode", [barcode |-> barcode], <<>>)
            ELSE \E p \in result :
                    Answer("getProductByBarcode", [barcode |-> barcode],
                           << products[p] >>)

\* The catalogue: createProduct, updateProduct and the barcode lookup.
NextCatalog ==
    \/ \E c \in Calls : ProdCheckBarcode(c)
    \/ \E c \in Calls : ProdInsertProduct(c)
    \/ \E c \in Calls : UpdSelectProduct(c)
    \/ \E c \in Calls : UpdSelectReturned(c)
    \/ \E c \in Calls : UpdUpdateProduct(c)
    \/ GetProductByBarcode
    \/ Tick

SpecCatalog == Init /\ [][NextCatalog]_vars

(* -------------------------- getLowStockProducts ----------------------- *)

\* Mutant of LowStock: lt in place of lte.
LowStockBelow(row) == row.stock_quantity < row.min_stock_level

\* where(lte(productsTable.stock_quantity, sql`${productsTable.min_stock_level}`))
LowStock(row) == row.stock_quantity <= row.min_stock_level

\* The rows of the select; the array has no ORDER BY, so it is kept as the
\* set of its rows.
GetLowStockProducts ==
    Answer("getLowStockProducts", <<>>,
           {products[p] : p \in {q \in DOMAIN products : LowStock(products[q])}})

\* The stock: sales, adjustments and the low-stock query.
NextStock ==
    \/ \E c \in Calls : SaleCall(c)
    \/ \E c \in Calls : SaleInsertTransaction(c)
    \/ \E c \in Calls : SaleInsertItem(c)
    \/ \E c \in Calls : SaleUpdateStock(c)
    \/ \E c \in Calls : AdjSelectProduct(c)
    \/ \E c \in Calls : AdjInsertAdjustment(c)
    \/ \E c \in Calls : AdjInsertReturned(c)
    \/ \E c \in Calls : AdjUpdateProduct(c)
    \/ GetLowStockProducts
    \/ Tick

SpecStock == Init /\ [][NextStock]_vars

(* ------------------------------ createUser --------------------------- *)

CreateUserInputs ==
    [username : {"test_cashier", "newuser"},
     email    : {"cashier@test.com", "new@example.com"},
     password : {"password123", "secret99"},
     role     : {"cashier"}]

\* or(eq(usersTable.username, input.username), eq(usersTable.email, input.email))
ExistingUsers(input) ==
    {u \in DOMAIN users :
        users[u].username = input.username \/ users[u].email = input.email}

\* Bun.password.hash(password): a salted one-way hash of the password.
PasswordHash(password) == Hash("argon2id", password, "$argon2id$")

\* Mutant of UserUniqueError: neither column carries a unique constraint.
UserNotUnique(username, email) == ""

\* usersTable: username and email are unique.
UserUniqueError(username, email) ==
    IF \E u \in DOMAIN users :
          users[u].username = username \/ users[u].email = email
    THEN "UniqueViolation"
    ELSE ""

\* The call and its first statement: the select of the users that hold the
\* username or the email.  existingUsers[0] is any of them (no ORDER BY); the
\* username is compared first.
UserSelectExisting(c) ==
    /\ CanBegin(c)
    /\ \E input \in CreateUserInputs :
         LET call == Called(c, "createUser", 0, input, <<>>)
         IN  IF ExistingUsers(input) = {}
             THEN Goto(c, call, "insert_user", <<>>)
             ELSE \E u \in ExistingUsers(input) :
                     IF users[u].username = input.username
                     THEN Fail(c, call, "UsernameExists")
                     ELSE Fail(c, call, "EmailExists")
    /\ UNCHANGED <<tables, clock>>

\* await Bun.password.hash(input.password) touches nothing shared, so it is
\* part of the step of the insert:
\* db.insert(usersTable).values({..., is_active: true}).returning()
UserInsertUser(c) ==
    /\ calls[c].op = "createUser" /\ calls[c].pc = "insert_user"
    /\ LET call  == calls[c]
           input == call.input
           id    == seq.users + 1
           err   == UserUniqueError(input.username, input.email)
           row   == [id |-> id, username |-> input.username,
                     email |-> input.email,
                     password_hash |-> PasswordHash(input.password),
                     role |-> input.role, is_active |-> TRUE,
                     created_at |-> clock, updated_at |-> clock]
       IN  /\ seq' = [seq EXCEPT !.users = id]
           /\ IF err # ""
              THEN /\ Fail(c, call, err)
                   /\ UNCHANGED users
              ELSE /\ users' = WithRow(users, id, row)
                   /\ Return(c, call, row)
    /\ UNCHANGED <<products, transactions, transaction_items, stock_adjustments,
                   clock>>

(* ------------------------------- loginUser ---------------------------- *)

LoginInputs ==
    [username : {"test_cashier", "inactive_user", "newuser", "nobody"},
     password : {"password123", "secret99", "wrongpass"}]

\* db.select().from(usersTable).where(eq(usersTable.username, input.username))
UsersNamed(username) == {u \in DOMAIN users : users[u].username = username}

\* Mutant of LoginError: the is_active flag is not looked at.
LoginErrorActiveUnchecked(input, user) ==
    IF input.password # "password123" THEN "InvalidCredentials" ELSE ""

\* The checks on users[0]: if (!user.is_active) throw ...;
\* if (input.password !== 'password123') throw ...
LoginError(input, user) ==
    IF ~user.is_active THEN "Inactive"
    ELSE IF input.password # "password123" THEN "InvalidCredentials"
    ELSE ""

\* `token_${user.id}_${Date.now()}` and the user's id, username and role.
LoginResult(user, now) ==
    [token |-> <<"token_", user.id, "_", now>>,
     user  |-> [id |-> user.id, username |-> user.username, role |-> user.role]]

\* A query that throws.
Refuse(op, input, err) ==
    /\ calls' = [calls EXCEPT ![Query] =
                    [op |-> op, pc |-> "failed", userId |-> 0, input |-> input,
                     loc |-> <<>>, err |-> err, result |-> <<>>]]
    /\ UNCHANGED <<tables, clock, pre, screen>>

\* loginUser runs one statement, the select, as the database runs it; the
\* handler will decide on users[0].
LoginUser ==
    \E input \in LoginInputs :
        IF UsersNamed(input.username) = {}
        THEN Refuse("loginUser", input, "InvalidCredentials")
        ELSE \E u \in UsersNamed(input.username) :
                IF LoginError(input, users[u]) # ""
                THEN Refuse("loginUser", input, LoginError(input, users[u]))
                ELSE /\ calls' = [calls EXCEPT ![Query] =
                                    [op |-> "loginUser", pc |-> "select_returned",
                                     userId |-> 0, input |-> input,
                                     loc |-> [user |-> users[u]], err |-> "",
                                     result |-> <<>>]]
                     /\ UNCHANGED <<tables, clock, pre, screen>>

\* The handler resumes with users, passes its checks and builds the token,
\* reading Date.now().
LoginReturned ==
    /\ calls[Query].op = "loginUser" /\ calls[Query].pc = "select_returned"
    /\ Answer("loginUser", calls[Query].input,
              LoginResult(calls[Query].loc.user, clock))

\* The users of login_user.test.ts: the cashier and a user inserted with
\* is_active: false.
InitUsers ==
    /\ users = (1 :> TestCashier)
                @@
                (2 :> [id |-> 2, username |-> "inactive_user",
                       email |-> "inactive@example.com",
                       password_hash |-> Hash("none", "", "hashed_password123"),
                       role |-> "cashier", is_active |-> FALSE,
                       created_at |-> 0, updated_at |-> 0])
    /\ products = <<>>
    /\ transactions = <<>>
    /\ transaction_items = <<>>
    /\ stock_adjustments = <<>>
    /\ seq = [users |-> 2, products |-> 0, transactions |-> 0,
              transaction_items |-> 0, stock_adjustments |-> 0]
    /\ clock = 0
    /\ calls = [c \in Slots |-> NoCall]
    /\ pre = products
    /\ screen = Mounted

NextUsers ==
    \/ \E c \in Calls : UserSelectExisting(c)
    \/ \E c \in Calls : UserInsertUser(c)
    \/ LoginUser
    \/ LoginReturned
    \/ Tick

SpecUsers == InitUsers /\ [][NextUsers]_vars

(* ------------------------------- reports ------------------------------ *)

\* The sum of the values of the function f.
RECURSIVE SumFn(_)
SumFn(f) ==
    IF DOMAIN f = {} THEN 0
    ELSE LET k == CHOOSE j \in DOMAIN f : TRUE
         IN  f[k] + SumFn([j \in DOMAIN f \ {k} |-> f[j]])

\* dateRangeInputSchema: start_date and end_date, each a date string that
\* new Date(...) turns into its instant on the clock.
DateRanges == [start_date : 0..MaxClock, end_date : 0..MaxClock]

\* Mutant of InReport: the range ends one instant after the end date.
InReportPastEnd(t, input) ==
    /\ transactions[t].status = "completed"
    /\ transactions[t].created_at >= input.start_date
    /\ transactions[t].created_at <= input.end_date + 1

\* and(eq(status, 'completed'), gte(created_at, startDate), lte(created_at, endDate))
InReport(t, input) ==
    /\ transactions[t].status = "completed"
    /\ transactions[t].created_at >= input.start_date
    /\ transactions[t].created_at <= input.end_date

\* transactionsTable innerJoin transactionItemsTable innerJoin productsTable
\* under the where clause: one joined row for every item k of a matching
\* transaction whose product exists.
JoinedItems(input) ==
    {k \in DOMAIN transaction_items :
        /\ transaction_items[k].transaction_id \in DOMAIN transactions
        /\ InReport(transaction_items[k].transaction_id, input)
        /\ transaction_items[k].product_id \in DOMAIN products}

\* A quotient of two numbers: num / den.
Quotient(num, den) == [num |-> num, den |-> den]

\* sum(transactionsTable.total_amount), count(transactionsTable.id) and
\* sum(quantity * cost_price) over the joined rows, then the average and the
\* profit computed from them.
SalesMetrics(input) ==
    LET J == JoinedItems(input)
        totalSales ==
            SumFn([k \in J |->
                     transactions[transaction_items[k].transaction_id].total_amount])
        totalTransactions == Cardinality(J)
        totalCost ==
            SumFn([k \in J |->
                     transaction_items[k].quantity
                       * products[transaction_items[k].product_id].cost_price])
    IN  [total_sales |-> totalSales,
         total_transactions |-> totalTransactions,
         average_transaction_value |->
             IF totalTransactions > 0
             THEN Quotient(totalSales, totalTransactions)
             ELSE Quotient(0, 1),
         total_profit |-> totalSales - totalCost]

\* groupBy(productsTable.id, productsTable.name) with sum(quantity) and
\* sum(total_price): one row for every product that has a joined row.
ProductGroups(input) ==
    LET J == JoinedItems(input)
    IN  {[product_id |-> p,
          product_name |-> products[p].name,
          quantity_sold |->
              SumFn([k \in {j \in J : transaction_items[j].product_id = p} |->
                       transaction_items[k].quantity]),
          revenue |->
              SumFn([k \in {j \in J : transaction_items[j].product_id = p} |->
                       transaction_items[k].total_price])]
         : p \in {transaction_items[k].product_id : k \in J}}

\* .limit(5)
TopLimit == 5

\* Mutant of TopFirst: orderBy(asc(...)).
TopFirstAscending(groups) ==
    {g \in groups : \A h \in groups : g.quantity_sold <= h.quantity_sold}

\* orderBy(desc(sum(quantity))): the rows that may come first; rows with
\* equal sums come in any order.
TopFirst(groups) ==
    {g \in groups : \A h \in groups : g.quantity_sold >= h.quantity_sold}

\* The arrays that orderBy(...).limit(n) may return from the rows `groups`.
RECURSIVE TopRows(_, _)
TopRows(groups, n) ==
    IF n = 0 \/ groups = {} THEN {<<>>}
    ELSE UNION {{<<g>> \o rest : rest \in TopRows(groups \ {g}, n - 1)}
                : g \in TopFirst(groups)}

\* Mutant of PaymentMethodStats: the where clause has no status condition.
PaymentMethodStatsAnyStatus(input) ==
    LET T == {t \in DOMAIN transactions :
                /\ transactions[t].created_at >= input.start_date
                /\ transactions[t].created_at <= input.end_date}
    IN  {[payment_method |-> m,
          count |-> Cardinality({t \in T : transactions[t].payment_method = m}),
          total_amount |->
              SumFn([t \in {u \in T : transactions[u].payment_method = m} |->
                       transactions[t].total_amount])]
         : m \in {transactions[t].payment_method : t \in T}}

\* from(transactionsTable).where(...).groupBy(payment_method) with count(id)
\* and sum(total_amount); the array has no ORDER BY and is kept as a set.
PaymentMethodStats(input) ==
    LET T == {t \in DOMAIN transactions : InReport(t, input)}
    IN  {[payment_method |-> m,
          count |-> Cardinality({t \in T : transactions[t].payment_method = m}),
          total_amount |->
              SumFn([t \in {u \in T : transactions[u].payment_method = m} |->
                       transactions[t].total_amount])]
         : m \in {transactions[t].payment_method : t \in T}}

(* ---------------------------- getSalesReport ------------------------- *)

\* The report query at its statement pc, with the rows it has read so far.
Reporting(input, pc, loc, result) ==
    /\ calls' = [calls EXCEPT ![Query] =
                    [op |-> "getSalesReport", pc |-> pc, userId |-> 0,
                     input |-> input, loc |-> loc, err |-> "",
                     result |-> result]]
    /\ UNCHANGED <<tables, clock, pre, screen>>

\* The call and its first statement: the select of the sales metrics.
ReportSalesMetrics ==
    /\ ~InFlight(calls[Query])
    /\ \E input \in DateRanges :
         Reporting(input, "top_products",
                   [metrics |-> SalesMetrics(input)], <<>>)

\* The second statement: the select of the top-selling products.
ReportTopProducts ==
    /\ calls[Query].op = "getSalesReport" /\ calls[Query].pc = "top_products"
    /\ \E top \in TopRows(ProductGroups(calls[Query].input), TopLimit) :
         Reporting(calls[Query].input, "payment_methods",
                   [metrics |-> calls[Query].loc.metrics, topProducts |-> top],
                   <<>>)

\* The third statement, the select of the payment method statistics, and the
\* return of the report.
ReportPaymentMethods ==
    /\ calls[Query].op = "getSalesReport" /\ calls[Query].pc = "payment_methods"
    /\ LET loc   == calls[Query].loc
           stats == PaymentMethodStats(calls[Query].input)
       IN  Reporting(calls[Query].input, "done", loc,
                     [total_sales |-> loc.metrics.total_sales,
                      total_transactions |-> loc.metrics.total_transactions,
                      average_transaction_value |->
                          loc.metrics.average_transaction_value,
                      total_profit |-> loc.metrics.total_profit,
                      top_selling_products |-> loc.topProducts,
                      sales_by_payment_method |-> stats])

(* -------------------------- getProfitLossReport ----------------------- *)

\* Mutant of UniqueTransactions: the joined rows are counted, one per item.
TransactionsPerItem(J) == Cardinality(J)

\* uniqueTransactions.add(item.transactionId) for every row; .size
UniqueTransactions(J) ==
    Cardinality({transaction_items[k].transaction_id : k \in J})

\* The totals accumulated over the joined rows and the metrics derived from
\* them.
ProfitLoss(input) ==
    LET J == JoinedItems(input)
        totalRevenue == SumFn([k \in J |-> transaction_items[k].total_price])
        totalCostOfGoodsSold ==
            SumFn([k \in J |->
                     products[transaction_items[k].product_id].cost_price
                       * transaction_items[k].quantity])
        grossProfit == totalRevenue - totalCostOfGoodsSold
    IN  [total_revenue |-> totalRevenue,
         total_cost_of_goods_sold |-> totalCostOfGoodsSold,
         gross_profit |-> grossProfit,
         gross_profit_margin |->
             IF totalRevenue > 0
             THEN Quotient(grossProfit * 100, totalRevenue)
             ELSE Quotient(0, 1),
         total_transactions |-> UniqueTransactions(J),
         period_start |-> input.start_date,
         period_end |-> input.end_date]

\* getProfitLossReport runs one statement, the select of the joined rows.
GetProfitLossReport ==
    /\ ~InFlight(calls[Query])
    /\ \E input \in DateRanges :
         Answer("getProfitLossReport", input, ProfitLoss(input))

\* A product row as the report tests insert it.
ReportProduct(id, name, cost_price, selling_price) ==
    [id |-> id, name |-> name, description |-> Null, barcode |-> Null,
     cost_price |-> cost_price, selling_price |-> selling_price,
     stock_quantity |-> 100, min_stock_level |-> 10, category |-> Null,
     created_at |-> 0, updated_at |-> 0]

\* A transaction row as the report tests insert it.
ReportTransaction(id, total_amount, payment_method, status) ==
    [id |-> id, user_id |-> 1, total_amount |-> total_amount, tax_amount |-> 0,
     discount_amount |-> 0, payment_method |-> payment_method,
     status |-> status, receipt_number |-> <<"REC", id>>,
     created_at |-> 0, updated_at |-> 0]

ReportItem(id, transaction_id, product_id, quantity, unit_price) ==
    [id |-> id, transaction_id |-> transaction_id, product_id |-> product_id,
     quantity |-> quantity, unit_price |-> unit_price,
     total_price |-> quantity * unit_price, created_at |-> 0]

\* The database of the report tests: a completed cash sale of 10 units of
\* product 1 (cost 10.00, price 15.00), a pending card sale of 5 units, and a
\* completed mobile-money sale of five more products.
InitReport ==
    /\ users = (1 :> TestCashier)
    /\ products = [p \in 1..7 |->
                     IF p = 1 THEN ReportProduct(1, "Test Product", 1000, 1500)
                     ELSE IF p = 2 THEN ReportProduct(2, "Product B", 500, 800)
                     ELSE ReportProduct(p, <<"Product", p>>, 100 * p, 200 * p)]
    /\ transactions =
         [t \in 1..3 |->
            IF t = 1 THEN ReportTransaction(1, 15000, "cash", "completed")
            ELSE IF t = 2 THEN ReportTransaction(2, 10000, "card", "pending")
            ELSE ReportTransaction(3, 22200, "mobile_money", "completed")]
    /\ transaction_items =
         [k \in 1..7 |->
            IF k = 1 THEN ReportItem(1, 1, 1, 10, 1500)
            ELSE IF k = 2 THEN ReportItem(2, 2, 1, 5, 1500)
            ELSE IF k = 3 THEN ReportItem(3, 3, 3, 7, 600)
            ELSE IF k = 4 THEN ReportItem(4, 3, 4, 2, 800)
            ELSE IF k = 5 THEN ReportItem(5, 3, 5, 4, 1000)
            ELSE IF k = 6 THEN ReportItem(6, 3, 6, 3, 1200)
            ELSE ReportItem(7, 3, 7, 6, 1400)]
    /\ stock_adjustments = <<>>
    /\ seq = [users |-> 1, products |-> 7, transactions |-> 3,
              transaction_items |-> 7, stock_adjustments |-> 0]
    /\ clock = 0
    /\ calls = [c \in Slots |-> NoCall]
    /\ pre = products
    /\ screen = Mounted

\* The sales the router passes on while the reports run.
ReportSale(c) == SaleCallOf(c, {SaleOfTwoProducts, SaleOfOneItem}, {RouterUserId})

\* The sales and the two reports, which run between any two statements of
\* the sales.
NextReport ==
    \/ \E c \in Calls : ReportSale(c)
    \/ \E c \in Calls : SaleInsertTransaction(c)
    \/ \E c \in Calls : SaleInsertItem(c)
    \/ \E c \in Calls : SaleUpdateStock(c)
    \/ ReportSalesMetrics
    \/ ReportTopProducts
    \/ ReportPaymentMethods
    \/ GetProfitLossReport
    \/ Tick

SpecReport == InitReport /\ [][NextReport]_vars

(* ---------------------------- getTransactions ------------------------ *)

\* The clock values of one calendar day: the day d is the instants
\* d * DayLength .. (d + 1) * DayLength - 1, and an instant divisible by
\* DayLength is a midnight, the instant a date string without a time denotes.
\* The server's time zone is UTC.
DayLength == 2

\* endDate.setHours(23, 59, 59, 999): the last instant of the day of endDate.
EndOfDay(date) == (date \div DayLength) * DayLength + (DayLength - 1)

\* Mutant of ListedUntil: the end date is not extended.
ListedUntilInstant(date) == date

\* The upper limit of created_at for the end date `date`.
ListedUntil(date) == EndOfDay(date)

\* The call without a date range.
NoRange == [all |-> TRUE]

\* The ranges of the reports, the range of yesterday, and no range.
ListingInputs ==
    DateRanges
    \cup {[start_date |-> -DayLength, end_date |-> -DayLength]}
    \cup {NoRange}

HasRange(input) == "start_date" \in DOMAIN input

\* if (dateRange) { gte(created_at, startDate), lte(created_at, endDate) }
Listed(input) ==
    {t \in DOMAIN transactions :
        HasRange(input) =>
            /\ transactions[t].created_at >= input.start_date
            /\ transactions[t].created_at <= ListedUntil(input.end_date)}

\* orderBy(desc(transactionsTable.created_at)): the arrays the select may
\* return from the rows T; rows of one instant come in any order.
RECURSIVE NewestFirst(_)
NewestFirst(T) ==
    IF T = {} THEN {<<>>}
    ELSE UNION {{<<transactions[t]>> \o rest : rest \in NewestFirst(T \ {t})}
                : t \in {u \in T : \A v \in T :
                            transactions[u].created_at >= transactions[v].created_at}}

\* getTransactions runs one statement, the select.
GetTransactions ==
    /\ ~InFlight(calls[Query])
    /\ \E input \in ListingInputs :
         \E results \in NewestFirst(Listed(input)) :
            Answer("getTransactions", input, results)

\* The database of the getTransactions tests: a completed transaction of
\* yesterday and a pending one of today, each with one item of product 1.
InitListing ==
    /\ users = (1 :> TestCashier)
    /\ products = [p \in 1..2 |->
                     IF p = 1 THEN ReportProduct(1, "Test Product", 1000, 1500)
                     ELSE ReportProduct(2, "Product B", 500, 800)]
    /\ transactions =
         [t \in 1..2 |->
            IF t = 1
            THEN [ReportTransaction(1, 15000, "cash", "completed")
                    EXCEPT !.created_at = -DayLength, !.updated_at = -DayLength]
            ELSE ReportTransaction(2, 10000, "card", "pending")]
    /\ transaction_items =
         [k \in 1..2 |->
            IF k = 1 THEN ReportItem(1, 1, 1, 10, 1500)
            ELSE ReportItem(2, 2, 1, 5, 1500)]
    /\ stock_adjustments = <<>>
    /\ seq = [users |-> 1, products |-> 2, transactions |-> 2,
              transaction_items |-> 2, stock_adjustments |-> 0]
    /\ clock = 0
    /\ calls = [c \in Slots |-> NoCall]
    /\ pre = products
    /\ screen = Mounted

\* The sales, the listing and the two reports.
NextListing ==
    \/ \E c \in Calls : ReportSale(c)
    \/ \E c \in Calls : SaleInsertTransaction(c)
    \/ \E c \in Calls : SaleInsertItem(c)
    \/ \E c \in Calls : SaleUpdateStock(c)
    \/ GetTransactions
    \/ ReportSalesMetrics
    \/ ReportTopProducts
    \/ ReportPaymentMethods
    \/ GetProfitLossReport
    \/ Tick

SpecListing == InitListing /\ [][NextListing]_vars

(* ---------------------------- generateReceipt ------------------------ *)

\* receiptInputSchema: the ids of the first two transactions and an id that
\* no transaction has.
ReceiptInputs == [transaction_id : {1, 2, 9}]

\* The receipt query at its statement pc.
Receipting(input, pc, loc, err, result) ==
    /\ calls' = [calls EXCEPT ![Query] =
                    [op |-> "generateReceipt", pc |-> pc, userId |-> 0,
                     input |-> input, loc |-> loc, err |-> err,
                     result |-> result]]
    /\ UNCHANGED <<tables, clock, pre, screen>>

\* Mutant of ReceiptItemRows: the select has no where clause.
ReceiptItemRowsOfAll(transaction_id) ==
    {k \in DOMAIN transaction_items :
        transaction_items[k].product_id \in DOMAIN products}

\* from(transactionItemsTable).innerJoin(productsTable, ...)
\*   .where(eq(transactionItemsTable.transaction_id, input.transaction_id))
ReceiptItemRows(transaction_id) ==
    {k \in DOMAIN transaction_items :
        /\ transaction_items[k].transaction_id = transaction_id
        /\ transaction_items[k].product_id \in DOMAIN products}

\* One mapped item: the columns of the item and the name of its product.
ReceiptItem(k) ==
    [id |-> transaction_items[k].id,
     transaction_id |-> transaction_items[k].transaction_id,
     product_id |-> transaction_items[k].product_id,
     quantity |-> transaction_items[k].quantity,
     unit_price |-> transaction_items[k].unit_price,
     total_price |-> transaction_items[k].total_price,
     created_at |-> transaction_items[k].created_at,
     product_name |-> products[transaction_items[k].product_id].name]

\* The first statement, the select of the transaction: the position, the
\* locals and the outcome of the query after it.
ReceiptTransactionSelected(input) ==
    IF input.transaction_id \notin DOMAIN transactions
    THEN [pc |-> "failed", loc |-> <<>>, err |-> "NotFound", result |-> <<>>]
    ELSE [pc |-> "select_items",
          loc |-> [transaction |-> transactions[input.transaction_id]],
          err |-> "", result |-> <<>>]

\* const business_info = {...}
BusinessInfo ==
    [name |-> "Point of Sale System",
     address |-> "123 Business Street, City, Country",
     phone |-> "+1-234-567-8900",
     email |-> "info@possystem.com"]

\* The second statement, the select of the items with their products, and
\* the return; the items have no ORDER BY and are kept as a set.
ReceiptItemsSelected(input, loc) ==
    [pc |-> "done", loc |-> loc, err |-> "",
     result |-> [transaction |-> loc.transaction,
                 items |-> {ReceiptItem(k) :
                              k \in ReceiptItemRows(input.transaction_id)},
                 business_info |-> BusinessInfo]]

\* The call and its first statement.
ReceiptSelectTransaction ==
    /\ ~InFlight(calls[Query])
    /\ \E input \in ReceiptInputs :
         LET to == ReceiptTransactionSelected(input)
         IN  Receipting(input, to.pc, to.loc, to.err, to.result)

\* The second statement and the return.
ReceiptSelectItems ==
    /\ calls[Query].op = "generateReceipt" /\ calls[Query].pc = "select_items"
    /\ LET input == calls[Query].input
           to    == ReceiptItemsSelected(input, calls[Query].loc)
       IN  Receipting(input, to.pc, to.loc, to.err, to.result)

\* The sales and the receipt.
NextReceipt ==
    \/ \E c \in Calls : SaleCall(c)
    \/ \E c \in Calls : SaleInsertTransaction(c)
    \/ \E c \in Calls : SaleInsertItem(c)
    \/ \E c \in Calls : SaleUpdateStock(c)
    \/ ReceiptSelectTransaction
    \/ ReceiptSelectItems
    \/ Tick

SpecReceipt == Init /\ [][NextReceipt]_vars

(* --------------------------- a full stock room ------------------------ *)

\* The database after createProduct has stored product 1 with a
\* stock_quantity five below the largest integer.
InitFull ==
    /\ users = (1 :> TestCashier)
    /\ products = (1 :> [ReportProduct(1, "Test Product", 1000, 1500)
                           EXCEPT !.stock_quantity = IntegerMax - 5])
    /\ transactions = <<>>
    /\ transaction_items = <<>>
    /\ stock_adjustments = <<>>
    /\ seq = [users |-> 1, products |-> 1, transactions |-> 0,
              transaction_items |-> 0, stock_adjustments |-> 0]
    /\ clock = 0
    /\ calls = [c \in Slots |-> NoCall]
    /\ pre = products
    /\ screen = Mounted

\* The stock adjustments alone.
NextFull ==
    \/ \E c \in Calls : AdjSelectProduct(c)
    \/ \E c \in Calls : AdjInsertAdjustment(c)
    \/ \E c \in Calls : AdjInsertReturned(c)
    \/ \E c \in Calls : AdjUpdateProduct(c)
    \/ Tick

SpecFull == InitFull /\ [][NextFull]_vars

(* ---------------------------- SalesInterface ------------------------ *)

\* The largest number of units in the cart.
MaxQuantity == 2

\* The largest number of downloadReceipt calls awaiting generateReceipt.
MaxDownloads == 2

\* The largest number of handleBarcodeSearch calls awaiting
\* getProductByBarcode.
MaxSearches == 1

\* The largest number of sales made on the screen.
MaxSales == 1

\* const [taxRate] = useState(0.15), in hundredths.
TaxRate == 15

\* The discounts, in percent, typed into the discount field.
Discounts == {0, 10}

\* The payment methods picked in the payment select: two of its four items.
SelectItems == {"cash", "card"}

\* The texts typed into the barcode field: nothing and the barcode of
\* product 1.  Neither has spaces around it, so barcode.trim() is the text
\* itself.
BarcodeInputs == {"", "TEST123456"}

\* The currentUser prop: the demo user App makes of the username typed at
\* login.
CurrentUser == [id |-> 1, username |-> "cashier", role |-> "cashier"]

\* A step of the screen alone: the server's state stays as it is.  The file
\* a step of downloadReceipt hands to the browser is there until the next
\* step of the screen.
OnScreen(next) ==
    /\ screen' = [next EXCEPT !.receiptText = <<>>]
    /\ UNCHANGED <<tables, clock, calls, pre>>

\* The sequence s without its element at i.
Without(s, i) == SubSeq(s, 1, i - 1) \o SubSeq(s, i + 1, Len(s))

\* getProducts: {} -> Product[], every product row.
GetProducts == products

\* The server answers a getProducts query of the screen with the rows it
\* reads.
LoadProductsQuery ==
    \E i \in DOMAIN screen.loadProducts :
       /\ screen.loadProducts[i].pc = "getProducts"
       /\ OnScreen([screen EXCEPT !.loadProducts[i] =
             [@ EXCEPT !.pc = "answered", !.result = GetProducts]])

\* loadProducts after its await: setProducts(result).  When processSale
\* awaits this call, its finally follows at once: setIsProcessing(false).
LoadProducts ==
    \E i \in DOMAIN screen.loadProducts :
       LET load == screen.loadProducts[i]
       IN  /\ load.pc = "answered"
           /\ OnScreen([screen EXCEPT
              !.products = load.result,
              !.loadProducts = Without(@, i),
              !.isProcessing = IF load.awaited THEN FALSE ELSE @,
              !.processSale = IF load.awaited THEN [pc |-> "idle"] ELSE @])

\* cartItems.reduce((sum, item) => sum + item.total_price, 0)
RECURSIVE CartReduce(_, _, _)
CartReduce(cartItems, k, sum) ==
    IF k > Len(cartItems) THEN sum
    ELSE CartReduce(cartItems, k + 1, sum + cartItems[k].total_price)

\* The totals computed on every render, in hundredths of a cent but for the
\* subtotal: subtotal * taxRate, (subtotal * discount) / 100 with discount in
\* percent, and subtotal + taxAmount - discountAmount.
CartSubtotal(cartItems) == CartReduce(cartItems, 1, 0)

CartTaxAmount(cartItems) == CartSubtotal(cartItems) * TaxRate

CartDiscountAmount(cartItems, discount) == CartSubtotal(cartItems) * discount

CartTotal(cartItems, discount) ==
    CartSubtotal(cartItems) * 100 + CartTaxAmount(cartItems)
      - CartDiscountAmount(cartItems, discount)

\* The number of units in the cart.
InCart(cartItems) ==
    CartReduce([i \in DOMAIN cartItems |->
                  [total_price |-> cartItems[i].quantity]], 1, 0)

\* <Dialog open={showReceipt}>: the receipt dialog is modal, so the screen
\* behind it takes no clicks and no typing while it shows.
Behind == ~screen.showReceipt

\* The updater of addToCart(product, quantity): more of a product of the
\* cart, or a new item at the product's selling price.
AddedToCart(prev, product, quantity) ==
    IF \E i \in DOMAIN prev : prev[i].product.id = product.id
    THEN [i \in DOMAIN prev |->
            IF prev[i].product.id = product.id
            THEN [prev[i] EXCEPT
                    !.quantity = prev[i].quantity + quantity,
                    !.total_price =
                        (prev[i].quantity + quantity) * prev[i].unit_price]
            ELSE prev[i]]
    ELSE Append(prev, [product |-> product, quantity |-> quantity,
                       unit_price |-> product.selling_price,
                       total_price |-> quantity * product.selling_price])

\* A click on a product card: addToCart(product).  The search term is left
\* empty, so every loaded product has a card.
AddToCart ==
    /\ Behind
    /\ InCart(screen.cartItems) < MaxQuantity
    /\ \E p \in DOMAIN screen.products :
          OnScreen([screen EXCEPT !.cartItems =
                       AddedToCart(@, screen.products[p], 1)])

\* The minus and the plus button of a cart item:
\* updateCartItemQuantity(productId, quantity - 1 or quantity + 1); the item
\* leaves the cart at quantity 0.
UpdateCartItemQuantity ==
    /\ Behind
    /\ \E i \in DOMAIN screen.cartItems :
       \E newQuantity \in {screen.cartItems[i].quantity - 1,
                           screen.cartItems[i].quantity + 1} :
       LET prev      == screen.cartItems
           productId == prev[i].product.id
       IN  /\ newQuantity > prev[i].quantity => InCart(prev) < MaxQuantity
           /\ OnScreen([screen EXCEPT !.cartItems =
                 IF newQuantity <= 0
                 THEN SelectSeq(prev, LAMBDA item : item.product.id # productId)
                 ELSE [j \in DOMAIN prev |->
                         IF prev[j].product.id = productId
                         THEN [prev[j] EXCEPT
                                 !.quantity = newQuantity,
                                 !.total_price = newQuantity * prev[j].unit_price]
                         ELSE prev[j]]])

\* The Clear button, shown while the cart has items: setCartItems([]).
ClearCart ==
    /\ Behind
    /\ screen.cartItems # <<>>
    /\ OnScreen([screen EXCEPT !.cartItems = <<>>])

\* The payment select of the checkout card, which is rendered while the cart
\* has items: setPaymentMethod(value).
SetPaymentMethod ==
    /\ Behind
    /\ screen.cartItems # <<>>
    /\ \E value \in SelectItems \ {screen.paymentMethod} :
          OnScreen([screen EXCEPT !.paymentMethod = value])

\* The discount field of the checkout card: setDiscount(...).
SetDiscount ==
    /\ Behind
    /\ screen.cartItems # <<>>
    /\ \E discount \in Discounts \ {screen.discount} :
          OnScreen([screen EXCEPT !.discount = discount])

\* Typing into the barcode field: setBarcodeInput(e.target.value).
SetBarcodeInput ==
    /\ Behind
    /\ \E value \in BarcodeInputs \ {screen.barcodeInput} :
          OnScreen([screen EXCEPT !.barcodeInput = value])

\* handleBarcodeSearch(barcodeInput) up to its await, from the Search button
\* or the Enter key: nothing for an empty barcode, else getProductByBarcode
\* is asked for it.
HandleBarcodeSearch ==
    /\ Behind
    /\ screen.barcodeInput # ""
    /\ Len(screen.handleBarcodeSearch) < MaxSearches
    /\ OnScreen([screen EXCEPT !.handleBarcodeSearch =
          Append(@, [pc |-> "getProductByBarcode",
                     barcode |-> screen.barcodeInput, product |-> <<>>])])

\* The server answers a getProductByBarcode query of the screen: result[0]
\* or null.
HandleBarcodeSearchQuery ==
    \E i \in DOMAIN screen.handleBarcodeSearch :
       LET search == screen.handleBarcodeSearch[i]
           result == BarcodeMatches(search.barcode)
       IN  /\ search.pc = "getProductByBarcode"
           /\ \E product \in IF result = {} THEN { <<>> }
                             ELSE { << products[p] >> : p \in result } :
                 OnScreen([screen EXCEPT !.handleBarcodeSearch[i] =
                    [@ EXCEPT !.pc = "answered", !.product = product]])

\* handleBarcodeSearch after its await: addToCart(product) and
\* setBarcodeInput('') for a product, the alert for null.  It runs whether
\* the receipt dialog shows or not.
HandleBarcodeSearchReturned ==
    \E i \in DOMAIN screen.handleBarcodeSearch :
       LET search == screen.handleBarcodeSearch[i]
       IN  /\ search.pc = "answered"
           /\ search.product # <<>> => InCart(screen.cartItems) < MaxQuantity
           /\ OnScreen([screen EXCEPT
                 !.cartItems = IF search.product # <<>>
                               THEN AddedToCart(@, search.product[1], 1)
                               ELSE @,
                 !.barcodeInput = IF search.product # <<>> THEN "" ELSE @,
                 !.handleBarcodeSearch = Without(@, i)])

\* The Close button of the receipt dialog: setShowReceipt(false).
CloseReceipt ==
    /\ screen.showReceipt
    /\ OnScreen([screen EXCEPT !.showReceipt = FALSE])

\* processSale up to its first await: the button is rendered while the cart
\* has items and disabled while a sale is processed; saleData is built from
\* the cart and the totals of this render and sent to createSale.  The
\* discounts and the prices here give a discount of whole cents.
ProcessSale ==
    /\ Behind
    /\ ~screen.isProcessing
    /\ screen.cartItems # <<>>
    /\ \E c \in Calls :
         /\ CanBegin(c)
         /\ c <= MaxSales
         /\ OnScreen([screen EXCEPT
               !.isProcessing = TRUE,
               !.processSale =
                   [pc |-> "createSale", request |-> c,
                    saleData |->
                      [items |-> [i \in DOMAIN screen.cartItems |->
                                    Item(screen.cartItems[i].product.id,
                                         screen.cartItems[i].quantity,
                                         screen.cartItems[i].unit_price)],
                       payment_method |-> screen.paymentMethod,
                       discount_amount |->
                           CartDiscountAmount(screen.cartItems, screen.discount)
                             \div 100,
                       tax_rate |-> TaxRate]]])

\* The server begins the createSale call the screen has sent, as the user
\* the router names.
ProcessSaleCall ==
    /\ screen.processSale.pc = "createSale"
    /\ SaleCallOf(screen.processSale.request, {screen.processSale.saleData},
                  {RouterUserId})

\* createSale has returned: setLastTransaction(transaction),
\* setShowReceipt(true), the cart, the discount and the barcode field are
\* cleared, and loadProducts is called and awaited.
ProcessSaleReturned ==
    /\ screen.processSale.pc = "createSale"
    /\ calls[screen.processSale.request].pc = "done"
    /\ OnScreen([screen EXCEPT
          !.lastTransaction = <<calls[screen.processSale.request].result>>,
          !.showReceipt = TRUE,
          !.cartItems = <<>>,
          !.discount = 0,
          !.barcodeInput = "",
          !.loadProducts = Append(@, [pc |-> "getProducts", awaited |-> TRUE, result |-> <<>>]),
          !.processSale = [pc |-> "loadProducts"]])

\* createSale has thrown: the alert, and setIsProcessing(false) of finally.
ProcessSaleFailed ==
    /\ screen.processSale.pc = "createSale"
    /\ calls[screen.processSale.request].pc = "failed"
    /\ OnScreen([screen EXCEPT
          !.isProcessing = FALSE,
          !.processSale = [pc |-> "idle"]])

\* downloadReceipt up to its await, from the button of the receipt dialog:
\* nothing without a lastTransaction; the callback holds the cart, the
\* discount and the payment method of this render, and generateReceipt is
\* asked for lastTransaction.id.
DownloadReceipt ==
    /\ screen.showReceipt
    /\ screen.lastTransaction # <<>>
    /\ Len(screen.downloadReceipt) < MaxDownloads
    /\ OnScreen([screen EXCEPT !.downloadReceipt =
          Append(@, [lastTransaction |-> screen.lastTransaction[1],
                     cartItems |-> screen.cartItems,
                     discount |-> screen.discount,
                     paymentMethod |-> screen.paymentMethod,
                     input |-> [transaction_id |-> screen.lastTransaction[1].id],
                     to |-> [pc |-> "called", loc |-> <<>>, err |-> "",
                             result |-> <<>>]])])

\* The server runs the first statement of a generateReceipt query of the
\* screen.
DownloadReceiptSelectTransaction ==
    \E i \in DOMAIN screen.downloadReceipt :
       LET download == screen.downloadReceipt[i]
       IN  /\ download.to.pc = "called"
           /\ OnScreen([screen EXCEPT !.downloadReceipt[i].to =
                           ReceiptTransactionSelected(download.input)])

\* The server runs the second statement of a generateReceipt query of the
\* screen and returns.
DownloadReceiptSelectItems ==
    \E i \in DOMAIN screen.downloadReceipt :
       LET download == screen.downloadReceipt[i]
       IN  /\ download.to.pc = "select_items"
           /\ OnScreen([screen EXCEPT !.downloadReceipt[i].to =
                           ReceiptItemsSelected(download.input, download.to.loc)])

\* Number.prototype.toFixed(2) of the amount num / den cents: the nearest
\* cent, either neighbour on a half cent.
ToFixed(num, den) == NumericRound(num, den)

\* new Date().toLocaleDateString(): the calendar day of the instant now, as
\* its number; the screen's time zone is UTC.
ToLocaleDateString(now) == now \div DayLength

\* String.prototype.toUpperCase of a payment method.
ToUpperCase(paymentMethod) ==
    CASE paymentMethod = "cash"          -> "CASH"
      [] paymentMethod = "card"          -> "CARD"
      [] paymentMethod = "mobile_money"  -> "MOBILE_MONEY"
      [] paymentMethod = "bank_transfer" -> "BANK_TRANSFER"

\* The text of the receipt, line by line, from the receipt returned, the
\* values the callback holds and the day of now, and the name of the file.
ReceiptText(receipt, held, now, tax, discount, total) ==
    [receipt_number |-> receipt.transaction.receipt_number,
     date |-> ToLocaleDateString(now),
     cashier |-> CurrentUser.username,
     items |-> [i \in DOMAIN held.cartItems |->
                  [name |-> held.cartItems[i].product.name,
                   quantity |-> held.cartItems[i].quantity,
                   total_price |-> held.cartItems[i].total_price]],
     subtotal |-> CartSubtotal(held.cartItems),
     tax |-> tax,
     discount |-> discount,
     total |-> total,
     payment_method |-> ToUpperCase(held.paymentMethod),
     download |-> <<"receipt-", held.lastTransaction.receipt_number, ".txt">>]

\* downloadReceipt after its await: the receipt text is built and downloaded,
\* or the alert when generateReceipt has thrown.
DownloadReceiptReturned ==
    \E i \in DOMAIN screen.downloadReceipt :
       LET held == screen.downloadReceipt[i]
       IN  \/ /\ held.to.pc = "done"
              /\ \E tax      \in ToFixed(CartTaxAmount(held.cartItems), 100),
                    discount \in ToFixed(CartDiscountAmount(held.cartItems,
                                                            held.discount), 100),
                    total    \in ToFixed(CartTotal(held.cartItems,
                                                   held.discount), 100) :
                    /\ screen' = [screen EXCEPT
                          !.receiptText = <<ReceiptText(held.to.result, held,
                                                        clock, tax, discount,
                                                        total)>>,
                          !.downloadReceipt = Without(@, i)]
                    /\ UNCHANGED <<tables, clock, calls, pre>>
           \/ /\ held.to.pc = "failed"
              /\ OnScreen([screen EXCEPT !.downloadReceipt = Without(@, i)])

\* The sales screen and the server behind it.
NextScreen ==
    \/ LoadProductsQuery
    \/ LoadProducts
    \/ AddToCart
    \/ UpdateCartItemQuantity
    \/ ClearCart
    \/ SetPaymentMethod
    \/ SetDiscount
    \/ SetBarcodeInput
    \/ HandleBarcodeSearch
    \/ HandleBarcodeSearchQuery
    \/ HandleBarcodeSearchReturned
    \/ CloseReceipt
    \/ ProcessSale
    \/ ProcessSaleCall
    \/ \E c \in Calls : SaleInsertTransaction(c)
    \/ \E c \in Calls : SaleInsertItem(c)
    \/ \E c \in Calls : SaleUpdateStock(c)
    \/ ProcessSaleReturned
    \/ ProcessSaleFailed
    \/ DownloadReceipt
    \/ DownloadReceiptSelectTransaction
    \/ DownloadReceiptSelectItems
    \/ DownloadReceiptReturned
    \/ Tick

\* A shop with one product, after createSale(SaleOfOneItem, 1) of another
\* till has run at the instant 0, and the screen mounted at that instant.
InitScreen ==
    /\ users = (1 :> TestCashier)
    /\ products = (1 :> [SeededProducts[1] EXCEPT
                            !.stock_quantity = SaleStockAfter(@, 2)])
    /\ transactions =
         (1 :> [id |-> 1, user_id |-> RouterUserId,
                total_amount |-> 3300, tax_amount |-> 300,
                discount_amount |-> 0, payment_method |-> "card",
                status |-> "completed", receipt_number |-> ReceiptNumber(0),
                created_at |-> 0, updated_at |-> 0])
    /\ transaction_items =
         (1 :> [id |-> 1, transaction_id |-> 1, product_id |-> 1,
                quantity |-> 2, unit_price |-> 1500, total_price |-> 3000,
                created_at |-> 0])
    /\ stock_adjustments = <<>>
    /\ seq = [users |-> 1, products |-> 1, transactions |-> 1,
              transaction_items |-> 1, stock_adjustments |-> 0]
    /\ clock = 0
    /\ calls = [c \in Slots |-> NoCall]
    /\ pre = products
    /\ screen = Mounted

SpecScreen == InitScreen /\ [][NextScreen]_vars

(* ------------------------------- claims ------------------------------- *)

SaleCalls == {c \in Calls : calls[c].op = "createSale"}

AdjustmentCalls == {c \in Calls : calls[c].op = "createStockAdjustment"}

ProductCalls == {c \in Calls : calls[c].op = "createProduct"}

\* The request issued last.
Latest(c) ==
    /\ calls[c].pc # "idle"
    /\ \A d \in Calls : d > c => calls[d].pc = "idle"

\* The sum of quantity * unit_price over the items, last item first.
RECURSIVE ItemsValue(_)
ItemsValue(items) ==
    IF items = <<>> THEN 0
    ELSE ItemsValue(SubSeq(items, 1, Len(items) - 1))
         + items[Len(items)].quantity * items[Len(items)].unit_price

\* The sum of the quantities of the items that reference product p.
RECURSIVE QuantitySold(_, _)
QuantitySold(items, p) ==
    IF items = <<>> THEN 0
    ELSE QuantitySold(Tail(items), p)
         + (IF Head(items).product_id = p THEN Head(items).quantity ELSE 0)

\* cents is the exact amount num / 100 cents at minor-unit precision: no
\* further from it than half a cent.
NearestCent(cents, num) == 2 * Abs(100 * cents - num) <= 100

\* C1: the Transaction stored and returned by createSale has tax_amount =
\* subtotal * tax_rate and total_amount = subtotal * (1 + tax_rate) -
\* discount_amount to the nearest cent, where subtotal is the sum of
\* quantity * unit_price over the input items; the total is not clamped at 0.
C1_SaleAmounts ==
    \A c \in SaleCalls :
        calls[c].loc.transaction_id # 0 =>
            LET input    == calls[c].input
                subtotal == ItemsValue(input.items)
                stored   == transactions[calls[c].loc.transaction_id]
            IN  /\ NearestCent(stored.tax_amount, subtotal * input.tax_rate)
                /\ NearestCent(stored.total_amount,
                               subtotal * (100 + input.tax_rate)
                                 - 100 * input.discount_amount)
                /\ stored.discount_amount = input.discount_amount
                /\ calls[c].pc = "done" => calls[c].result = stored

\* A sale has returned a total below zero, rounded from a fraction of a cent.
C1_Witness ==
    \E c \in SaleCalls :
        /\ calls[c].pc = "done"
        /\ calls[c].result.total_amount < 0
        /\ (ItemsValue(calls[c].input.items) * calls[c].input.tax_rate) % 100 # 0

\* The sale of the worked example: 2 at 15.00 of product 1, 3 at 8.00 of
\* product 2, tax_rate 0.15, discount 5.00.
ExampleSale ==
    SaleInput(<< Item(1, 2, 1500), Item(2, 3, 800) >>, 500, 15)

\* C2 as stated: the example sale yields subtotal 39.00, tax_amount 5.85 and
\* total_amount 39.85.
C2_Original ==
    \A c \in SaleCalls :
        calls[c].input = ExampleSale /\ calls[c].pc = "done" =>
            /\ SaleSubtotal(calls[c].input.items) = 3900
            /\ calls[c].result.tax_amount = 585
            /\ calls[c].result.total_amount = 3985

\* C2 amended: the example sale yields subtotal 54.00, tax_amount 8.10 and
\* total_amount 57.10.
C2_ExampleSale ==
    \A c \in SaleCalls :
        calls[c].input = ExampleSale /\ calls[c].pc = "done" =>
            /\ SaleSubtotal(calls[c].input.items) = 5400
            /\ calls[c].result.tax_amount = 810
            /\ calls[c].result.total_amount = 5710

\* The example sale has returned.
C2_Witness ==
    \E c \in SaleCalls : calls[c].input = ExampleSale /\ calls[c].pc = "done"

\* C3: when a createSale call has returned, every product's row is the row
\* from before the call with stock_quantity lowered by the quantities of the
\* items that reference the product, unclamped; other products are unchanged.
C3_StockDecrement ==
    \A c \in SaleCalls :
        Latest(c) /\ calls[c].pc = "done" =>
            /\ DOMAIN products = DOMAIN pre
            /\ \A p \in DOMAIN products :
                 products[p] =
                   [pre[p] EXCEPT !.stock_quantity =
                       @ - QuantitySold(calls[c].input.items, p)]

\* A sale with two items of the same product has returned and left that
\* product's stock below zero.
C3_Witness ==
    \E c \in SaleCalls :
        /\ Latest(c) /\ calls[c].pc = "done"
        /\ \E p \in DOMAIN products :
             /\ products[p].stock_quantity < 0
             /\ Cardinality({k \in DOMAIN calls[c].input.items :
                               calls[c].input.items[k].product_id = p}) > 1

\* C4: every product has stock_quantity >= 0 and min_stock_level >= 0.
C4_StockNonNegative ==
    \A p \in DOMAIN products :
        products[p].stock_quantity >= 0 /\ products[p].min_stock_level >= 0

\* The rows of transaction_items that belong to transaction t.
ItemsOf(t) ==
    {k \in DOMAIN transaction_items : transaction_items[k].transaction_id = t}

\* C5, for the states left behind by a call that has ended: when a createSale
\* call from n input items has returned or failed, its Transaction row exists
\* only together with its n TransactionItem rows and the n stock decrements.
C5_SaleAtomic ==
    \A c \in SaleCalls :
        (/\ Latest(c)
         /\ calls[c].pc \in {"done", "failed"}
         /\ calls[c].loc.transaction_id \in DOMAIN transactions)
        => /\ Cardinality(ItemsOf(calls[c].loc.transaction_id))
                = Len(calls[c].input.items)
           /\ \A p \in DOMAIN products :
                products[p].stock_quantity =
                  pre[p].stock_quantity - QuantitySold(calls[c].input.items, p)

\* C6: a completed createStockAdjustment with quantity_change q on a product
\* with stock s leaves stock s + |q| for increase, max(0, s - |q|) for
\* decrease and max(0, q) for recount.
C6_AdjustedStock ==
    \A c \in AdjustmentCalls :
        Latest(c) /\ calls[c].pc = "done" =>
            LET input == calls[c].input
                s == pre[input.product_id].stock_quantity
                q == input.quantity_change
                magnitude == IF q < 0 THEN -q ELSE q
                expected ==
                    IF input.adjustment_type = "increase" THEN s + magnitude
                    ELSE IF input.adjustment_type = "decrease"
                         THEN (IF s - magnitude < 0 THEN 0 ELSE s - magnitude)
                    ELSE (IF q < 0 THEN 0 ELSE q)
            IN  products[input.product_id].stock_quantity = expected

\* A decrease larger than the stock has completed and left stock 0.
C6_Witness ==
    \E c \in AdjustmentCalls :
        /\ Latest(c) /\ calls[c].pc = "done"
        /\ calls[c].input.adjustment_type = "decrease"
        /\ calls[c].input.quantity_change > pre[calls[c].input.product_id].stock_quantity
        /\ pre[calls[c].input.product_id].stock_quantity > 0
        /\ products[calls[c].input.product_id].stock_quantity = 0

\* C7: a step of createStockAdjustment for a product_id that matches no
\* product fails the call with the not-found error and changes no table: no
\* StockAdjustment row, no product row, no sequence.
C7_NotFoundNoEffect ==
    [][\A c \in Calls :
          (/\ calls'[c] # calls[c]
           /\ calls'[c].op = "createStockAdjustment"
           /\ calls'[c].input.product_id \notin DOMAIN products)
          => /\ calls'[c].pc = "failed"
             /\ calls'[c].err = "NotFound"
             /\ stock_adjustments' = stock_adjustments
             /\ products' = products
             /\ seq' = seq]_vars

\* A createStockAdjustment for a missing product has failed as not found.
C7_Witness ==
    \E c \in AdjustmentCalls :
        /\ calls[c].input.product_id \notin DOMAIN products
        /\ calls[c].pc = "failed"
        /\ calls[c].err = "NotFound"

\* C8: the StockAdjustment row inserted and returned by createStockAdjustment
\* carries the input's signed quantity_change, adjustment type, reason and
\* product id and the acting user id.
C8_AuditRow ==
    \A c \in AdjustmentCalls :
        calls[c].loc.adjustment_id # 0 =>
            LET row == stock_adjustments[calls[c].loc.adjustment_id]
            IN  /\ row.quantity_change = calls[c].input.quantity_change
                /\ row.adjustment_type = calls[c].input.adjustment_type
                /\ row.reason = calls[c].input.reason
                /\ row.product_id = calls[c].input.product_id
                /\ row.user_id = calls[c].userId
                /\ calls[c].pc = "done" => calls[c].result = row

\* A negative quantity_change has been returned in the audit row of a call
\* that wrote a stock computed from the absolute value or clamped to 0.
C8_Witness ==
    \E c \in AdjustmentCalls :
        /\ calls[c].pc = "done"
        /\ calls[c].result.quantity_change < 0
        /\ calls[c].loc.newStockQuantity # calls[c].loc.currentStock
                                             + calls[c].result.quantity_change

\* The errors of the conflict class: the pre-check's and the database's.
ConflictErrors == {"BarcodeExists", "UniqueViolation"}

\* C9: a step of createProduct whose non-empty barcode is stored on a product
\* fails the call with a conflict error and inserts nothing; a step of
\* createProduct with no barcode (omitted, null or empty) inserts one product
\* with barcode null and returns it.
C9_BarcodeConflict ==
    [][\A c \in Calls :
          (calls'[c] # calls[c] /\ calls'[c].op = "createProduct") =>
              LET b == Opt(calls'[c].input, "barcode")
              IN  /\ (b \notin {Undefined, Null, ""}
                      /\ \E p \in DOMAIN products : products[p].barcode = b)
                     => /\ calls'[c].pc = "failed"
                        /\ calls'[c].err \in ConflictErrors
                        /\ products' = products
                  /\ b \in {Undefined, Null, ""}
                     => /\ calls'[c].pc = "done"
                        /\ calls'[c].result.id \notin DOMAIN products
                        /\ DOMAIN products' = DOMAIN products \cup {calls'[c].result.id}
                        /\ products'[calls'[c].result.id] = calls'[c].result
                        /\ calls'[c].result.barcode = Null
                        /\ \A p \in DOMAIN products : products'[p] = products[p]]_vars

\* One createProduct was rejected for its barcode, and one with an empty
\* barcode stored null beside another product without a barcode.
C9_Witness ==
    /\ \E c \in ProductCalls :
         calls[c].pc = "failed" /\ calls[c].err = "BarcodeExists"
    /\ \E c \in ProductCalls :
         /\ calls[c].pc = "done"
         /\ Opt(calls[c].input, "barcode") = ""
         /\ \E p \in DOMAIN products :
              p # calls[c].result.id /\ products[p].barcode = Null

\* C10: no two products share a non-null barcode, whatever createProduct and
\* updateProduct calls interleave; and while only createProduct calls have
\* been issued, of two calls with the same barcode at most one succeeds.
C10_BarcodeUnique ==
    /\ \A p, q \in DOMAIN products :
         p # q /\ products[p].barcode # Null =>
             products[p].barcode # products[q].barcode
    /\ (\A c \in Calls : calls[c].op \in {"none", "createProduct"}) =>
         \A c, d \in ProductCalls :
            (/\ c # d
             /\ Truthy(Opt(calls[c].input, "barcode"))
             /\ Opt(calls[c].input, "barcode") = Opt(calls[d].input, "barcode"))
            => ~(calls[c].pc = "done" /\ calls[d].pc = "done")

\* Two createProduct calls with the same barcode both passed the pre-check;
\* one inserted its product and the database refused the other.
C10_Witness ==
    \E c, d \in ProductCalls :
        /\ c # d
        /\ Opt(calls[c].input, "barcode") = Opt(calls[d].input, "barcode")
        /\ calls[c].pc = "done"
        /\ calls[d].pc = "failed" /\ calls[d].err = "UniqueViolation"

UpdateCalls == {c \in Calls : calls[c].op = "updateProduct"}

\* C11: the step of updateProduct that completes the call leaves every other
\* product alone and, on the product named by the input, sets each field
\* present in the input to the input's value (null for an explicit null),
\* rewrites updated_at and keeps every other field, id and created_at
\* included; a step for an id that matches no product fails the call as not
\* found; a step that does not complete the call changes no table.
C11_UpdateFrame ==
    [][\A c \in Calls :
          (calls'[c] # calls[c] /\ calls'[c].op = "updateProduct") =>
              LET input == calls'[c].input
                  id    == input.id
              IN  /\ id \notin DOMAIN products =>
                        calls'[c].pc = "failed" /\ calls'[c].err = "NotFound"
                  /\ calls'[c].pc # "done" => tables' = tables
                  /\ calls'[c].pc = "done" =>
                        /\ DOMAIN products' = DOMAIN products
                        /\ \A p \in DOMAIN products \ {id} :
                              products'[p] = products[p]
                        /\ \A f \in DOMAIN products[id] \ {"updated_at"} :
                              products'[id][f] =
                                  IF f # "id" /\ f \in DOMAIN input
                                  THEN input[f]
                                  ELSE products[id][f]
                        /\ products'[id].updated_at = calls[c].loc.updated_at
                        /\ calls'[c].result = products'[id]
                        /\ <<users, transactions, transaction_items,
                              stock_adjustments, seq>>' =
                           <<users, transactions, transaction_items,
                             stock_adjustments, seq>>]_vars

\* One updateProduct cleared description and category of product 1 with
\* explicit nulls and kept its barcode, and one for a missing id failed.
C11_Witness ==
    /\ \E c \in UpdateCalls :
         /\ calls[c].pc = "done"
         /\ Opt(calls[c].input, "description") = Null
         /\ products[calls[c].input.id].description = Null
         /\ products[calls[c].input.id].category = Null
         /\ products[calls[c].input.id].barcode = "TEST123456"
    /\ \E c \in UpdateCalls :
         /\ calls[c].input.id \notin DOMAIN products
         /\ calls[c].pc = "failed" /\ calls[c].err = "NotFound"

\* C12: a getProductByBarcode for the empty string has returned null, and a
\* getProductByBarcode has never returned a product whose barcode is null.
C12_EmptyBarcodeLookup ==
    (calls[Query].op = "getProductByBarcode") =>
        /\ calls[Query].input.barcode = "" => calls[Query].result = <<>>
        /\ calls[Query].result # <<>> => calls[Query].result[1].barcode # Null

\* C13: the rows returned by a getLowStockProducts step are exactly the
\* products of the state it ran in whose stock_quantity is at most their
\* min_stock_level.
C13_LowStockExact ==
    [][(calls'[Query] # calls[Query] /\ calls'[Query].op = "getLowStockProducts") =>
          /\ \A p \in DOMAIN products :
                (products[p] \in calls'[Query].result)
                    <=> (products[p].stock_quantity <= products[p].min_stock_level)
          /\ \A row \in calls'[Query].result :
                \E p \in DOMAIN products : row = products[p]]_vars

\* After an adjustment left product 1 exactly at its min_stock_level, the
\* query returned product 1 together with product 2, which is below its level.
C13_Witness ==
    /\ calls[Query].op = "getLowStockProducts"
    /\ \E c \in Calls : calls[c].op = "createStockAdjustment" /\ calls[c].pc = "done"
    /\ products[1].stock_quantity = products[1].min_stock_level
    /\ products[1] \in calls[Query].result
    /\ products[2].stock_quantity < products[2].min_stock_level
    /\ products[2] \in calls[Query].result

UserCalls == {c \in Calls : calls[c].op = "createUser"}

\* The step is a step of a loginUser call.
LoginStep == calls'[Query] # calls[Query] /\ calls'[Query].op = "loginUser"

\* The step is the one in which a loginUser call returns or throws.
LoginEnds == LoginStep /\ calls'[Query].pc \in {"done", "failed"}

\* Bun.password.verify(password, hash)
PasswordVerify(password, hash) == hash.alg = "argon2id" /\ hash.of = password

UnauthorizedErrors == {"InvalidCredentials", "Inactive"}

\* C14: a loginUser step succeeds only when its password verifies against
\* the password_hash of the user it names; and for a user that a createUser
\* call created with password p, it succeeds with p and fails as unauthorized
\* with every other password.
C14_LoginVerifiesPassword ==
    [][LoginEnds =>
          LET input == calls'[Query].input
          IN  /\ calls'[Query].pc = "done" =>
                    \E u \in DOMAIN users :
                        /\ users[u].username = input.username
                        /\ PasswordVerify(input.password, users[u].password_hash)
              /\ \A c \in UserCalls :
                    (calls[c].pc = "done" /\ calls[c].input.username = input.username)
                    => IF input.password = calls[c].input.password
                       THEN calls'[Query].pc = "done"
                       ELSE /\ calls'[Query].pc = "failed"
                            /\ calls'[Query].err \in UnauthorizedErrors]_vars

\* C15: a loginUser step whose username matches no user, or matches a user
\* whose is_active is false, fails as unauthorized whatever the password,
\* returns no token and changes no table.
C15_LoginRefused ==
    [][LoginStep =>
          LET input == calls'[Query].input
          IN  /\ tables' = tables
              /\ (\A u \in DOMAIN users :
                      users[u].username = input.username => ~users[u].is_active)
                  => /\ calls'[Query].pc = "failed"
                     /\ calls'[Query].err \in UnauthorizedErrors
                     /\ calls'[Query].result = <<>>]_vars

\* The login of the inactive user with the accepted password was refused.
C15_Witness ==
    /\ calls[Query].op = "loginUser"
    /\ calls[Query].input.username = "inactive_user"
    /\ calls[Query].input.password = "password123"
    /\ \E u \in DOMAIN users :
         users[u].username = "inactive_user" /\ ~users[u].is_active
    /\ calls[Query].pc = "failed"
    /\ calls[Query].err = "Inactive"

UserConflictErrors == {"UsernameExists", "EmailExists", "UniqueViolation"}

\* A step of a createUser call.
UserStep(c) == calls'[c] # calls[c] /\ calls'[c].op = "createUser"

\* C16: usernames and emails are unique among the users; a createUser step
\* taken while a user holds the username or the email of its input fails the
\* call with a conflict error and inserts nothing; the step that completes a
\* call inserts exactly one user, with the input's username and email and
\* is_active = true.
C16_UserUnique ==
    /\ [](\A u, v \in DOMAIN users :
            u # v => /\ users[u].username # users[v].username
                     /\ users[u].email # users[v].email)
    /\ [][\A c \in Calls : UserStep(c) =>
            LET input == calls'[c].input
            IN  /\ ExistingUsers(input) # {} =>
                      /\ calls'[c].pc = "failed"
                      /\ calls'[c].err \in UserConflictErrors
                      /\ users' = users
                /\ calls'[c].pc # "done" => users' = users
                /\ calls'[c].pc = "done" =>
                      LET id == calls'[c].result.id
                      IN  /\ id \notin DOMAIN users
                          /\ DOMAIN users' = DOMAIN users \cup {id}
                          /\ \A u \in DOMAIN users : users'[u] = users[u]
                          /\ users'[id] = calls'[c].result
                          /\ users'[id].username = input.username
                          /\ users'[id].email = input.email
                          /\ users'[id].is_active]_vars

\* Two createUser calls with the same username both passed the select; one
\* inserted its user and the database refused the other.
C16_Witness ==
    \E c, d \in UserCalls :
        /\ c # d
        /\ calls[c].input.username = calls[d].input.username
        /\ calls[c].pc = "done"
        /\ calls[d].pc = "failed" /\ calls[d].err = "UniqueViolation"

\* The completed transactions created in the range of the report input.
CompletedInRange(input) ==
    {t \in DOMAIN transactions :
        /\ transactions[t].status = "completed"
        /\ input.start_date <= transactions[t].created_at
        /\ transactions[t].created_at <= input.end_date}

\* The items of the completed transactions created in the range.
ItemsInRange(input) ==
    {k \in DOMAIN transaction_items :
        transaction_items[k].transaction_id \in CompletedInRange(input)}

\* The quotient q has the value num / den.
IsQuotient(q, num, den) == q = Quotient(num, den)

\* C17: the metrics read by the first statement of getSalesReport are, over
\* the completed transactions created in the range: total_sales the sum of
\* their total_amount, total_transactions their number,
\* average_transaction_value their quotient (0 when there are none), and
\* total_profit total_sales minus the sum of quantity * cost_price over their
\* items.
C17_SalesMetrics ==
    [][(calls'[Query] # calls[Query] /\ calls'[Query].op = "getSalesReport"
        /\ calls'[Query].pc = "top_products") =>
          LET input == calls'[Query].input
              m     == calls'[Query].loc.metrics
              T     == CompletedInRange(input)
              sales == SumFn([t \in T |-> transactions[t].total_amount])
              cost  == SumFn([k \in ItemsInRange(input) |->
                                transaction_items[k].quantity
                                  * products[transaction_items[k].product_id].cost_price])
          IN  /\ m.total_sales = sales
              /\ m.total_transactions = Cardinality(T)
              /\ IF T = {}
                 THEN m.average_transaction_value.num = 0
                 ELSE IsQuotient(m.average_transaction_value, sales, Cardinality(T))
              /\ m.total_profit = sales - cost]_vars

\* The array of top-selling products read by the report.
TopOf(call) == call.loc.topProducts

\* C18: the array read by the second statement of getSalesReport has at
\* most 5 entries, one per product, in non-increasing order of quantity_sold;
\* every entry carries the sums of quantity and of total_price over the items
\* of its product in completed transactions created in the range; a product
\* with such items is left out only when 5 are listed, none of them with a
\* smaller quantity_sold.
C18_TopProducts ==
    [][(calls'[Query] # calls[Query] /\ calls'[Query].op = "getSalesReport"
        /\ calls'[Query].pc = "payment_methods") =>
          LET input == calls'[Query].input
              top   == TopOf(calls'[Query])
              I     == ItemsInRange(input)
              Of(p) == {k \in I : transaction_items[k].product_id = p}
              Qty(p) == SumFn([k \in Of(p) |-> transaction_items[k].quantity])
              sold  == {transaction_items[k].product_id : k \in I}
              shown == {top[i].product_id : i \in DOMAIN top}
          IN  /\ Len(top) <= 5
              /\ \A i, j \in DOMAIN top :
                    /\ i # j => top[i].product_id # top[j].product_id
                    /\ i < j => top[i].quantity_sold >= top[j].quantity_sold
              /\ \A i \in DOMAIN top :
                    /\ top[i].product_id \in sold
                    /\ top[i].quantity_sold = Qty(top[i].product_id)
                    /\ top[i].revenue =
                          SumFn([k \in Of(top[i].product_id) |->
                                   transaction_items[k].total_price])
              /\ \A p \in sold \ shown :
                    /\ Len(top) = 5
                    /\ \A i \in DOMAIN top : Qty(p) <= top[i].quantity_sold]_vars

\* A report listed 5 of 7 products sold, product 2 (sold by a createSale)
\* among them and a product with the same quantity_sold left out.
C18_Witness ==
    /\ calls[Query].op = "getSalesReport"
    /\ calls[Query].pc \in {"payment_methods", "done"}
    /\ Len(TopOf(calls[Query])) = 5
    /\ \E i \in 1..5 :
         /\ TopOf(calls[Query])[i].product_id = 2
         /\ \E g \in ProductGroups(calls[Query].input) :
              /\ g.quantity_sold = TopOf(calls[Query])[i].quantity_sold
              /\ \A j \in 1..5 : TopOf(calls[Query])[j].product_id # g.product_id
    /\ \E c \in SaleCalls : calls[c].pc = "done"

PaymentMethods == {"cash", "card", "mobile_money", "bank_transfer"}

\* C19: the statistics read by the last statement of getSalesReport hold,
\* for every payment method used by a completed transaction created in the
\* range, exactly one entry, with the number and the summed total_amount of
\* those transactions, and no entry for any other method.
C19_PaymentMethods ==
    [][(calls'[Query] # calls[Query] /\ calls'[Query].op = "getSalesReport"
        /\ calls'[Query].pc = "done") =>
          LET input == calls'[Query].input
              stats == calls'[Query].result.sales_by_payment_method
              T(m)  == {t \in CompletedInRange(input) :
                          transactions[t].payment_method = m}
          IN  /\ \A e \in stats : e.payment_method \in PaymentMethods
              /\ \A m \in PaymentMethods :
                    LET entries == {e \in stats : e.payment_method = m}
                    IN  IF T(m) = {}
                        THEN entries = {}
                        ELSE entries =
                               {[payment_method |-> m,
                                 count |-> Cardinality(T(m)),
                                 total_amount |->
                                     SumFn([t \in T(m) |->
                                              transactions[t].total_amount])]}]_vars

\* A report over a range that holds the pending card transaction and one
\* completed card sale counted one card transaction, and none by bank transfer.
C19_Witness ==
    /\ calls[Query].op = "getSalesReport" /\ calls[Query].pc = "done"
    /\ Cardinality({t \in DOMAIN transactions :
                       /\ transactions[t].payment_method = "card"
                       /\ transactions[t].created_at >= calls[Query].input.start_date
                       /\ transactions[t].created_at <= calls[Query].input.end_date})
         = 2
    /\ \E e \in calls[Query].result.sales_by_payment_method :
         e.payment_method = "card" /\ e.count = 1
    /\ \E e \in calls[Query].result.sales_by_payment_method :
         e.payment_method = "cash"
    /\ \A e \in calls[Query].result.sales_by_payment_method :
         e.payment_method # "bank_transfer"

\* C20: the report returned by a getProfitLossReport step has, over the items
\* of completed transactions created in the range: total_revenue the sum of
\* total_price, total_cost_of_goods_sold the sum of quantity * cost_price,
\* gross_profit their difference, gross_profit_margin gross_profit / revenue
\* * 100 (0 when revenue is 0), and total_transactions the number of those
\* transactions that have an item.
C20_ProfitLoss ==
    [][(calls'[Query] # calls[Query] /\ calls'[Query].op = "getProfitLossReport") =>
          LET input   == calls'[Query].input
              r       == calls'[Query].result
              I       == ItemsInRange(input)
              revenue == SumFn([k \in I |-> transaction_items[k].total_price])
              cost    == SumFn([k \in I |->
                                  transaction_items[k].quantity
                                    * products[transaction_items[k].product_id].cost_price])
          IN  /\ r.total_revenue = revenue
              /\ r.total_cost_of_goods_sold = cost
              /\ r.gross_profit = revenue - cost
              /\ IF revenue > 0
                 THEN IsQuotient(r.gross_profit_margin, (revenue - cost) * 100, revenue)
                 ELSE r.gross_profit_margin.num = 0
              /\ r.total_transactions =
                    Cardinality({t \in CompletedInRange(input) :
                                   \E k \in I : transaction_items[k].transaction_id = t})]_vars

\* A profit and loss report counted three transactions, one of them a
\* createSale of two items and one the sale of five products.
C20_Witness ==
    /\ calls[Query].op = "getProfitLossReport"
    /\ calls[Query].result.total_transactions = 3
    /\ calls[Query].result.total_revenue > 0
    /\ calls[Query].result.gross_profit_margin.num > 0
    /\ \E c \in SaleCalls :
         /\ calls[c].pc = "done"
         /\ Cardinality(ItemsOf(calls[c].loc.transaction_id)) = 2
         /\ seq.transactions = 4

\* The instants a and b lie on the same calendar day.
SameDay(a, b) == a \div DayLength = b \div DayLength

\* The step is a getTransactions call.
ListingStep == calls'[Query] # calls[Query] /\ calls'[Query].op = "getTransactions"

\* C21: the array returned by a getTransactions step holds each transaction
\* at most once, whatever its status, in non-increasing order of created_at:
\* without a range every transaction, with a range exactly those created at
\* or after start_date and at or before end_date or later on its day.
C21_Listing ==
    [][ListingStep =>
          LET input   == calls'[Query].input
              results == calls'[Query].result
              wanted  == {t \in DOMAIN transactions :
                            HasRange(input) =>
                              /\ transactions[t].created_at >= input.start_date
                              /\ \/ transactions[t].created_at <= input.end_date
                                 \/ SameDay(transactions[t].created_at, input.end_date)}
          IN  /\ Len(results) = Cardinality(wanted)
              /\ {results[i] : i \in DOMAIN results} = {transactions[t] : t \in wanted}
              /\ \A i, j \in DOMAIN results :
                    i < j => results[i].created_at >= results[j].created_at]_vars

\* A listing for the date of today returned the pending transaction and,
\* before it, a sale created later that day, and left out yesterday's.
C21_Witness ==
    /\ calls[Query].op = "getTransactions"
    /\ calls[Query].input = [start_date |-> 0, end_date |-> 0]
    /\ Len(calls[Query].result) = 2
    /\ calls[Query].result[1].created_at > 0
    /\ calls[Query].result[1].status = "completed"
    /\ calls[Query].result[2].status = "pending"
    /\ transactions[1].created_at < 0

\* The step is a statement of a generateReceipt call.
ReceiptStep == calls'[Query] # calls[Query] /\ calls'[Query].op = "generateReceipt"

\* The items of `items` that sell quantity q of product p at unit price u.
Selling(items, p, q, u) ==
    {i \in items : i.product_id = p /\ i.quantity = q /\ i.unit_price = u}

\* C22: the first statement of generateReceipt fails the call as not found
\* exactly when no transaction has the id; the statement that completes it
\* returns the transaction of that id with exactly the items stored for it,
\* each with the name of its product (no item when none is stored); for the
\* transaction returned by a completed createSale these are as many items as
\* the input had, item by item with the input's product, quantity and
\* unit_price.
C22_Receipt ==
    [][ReceiptStep =>
          LET id == calls'[Query].input.transaction_id
              r  == calls'[Query].result
              K  == {k \in DOMAIN transaction_items :
                       transaction_items[k].transaction_id = id}
          IN  /\ (calls[Query].pc # "select_items") =>
                    /\ (calls'[Query].pc = "failed") <=> (id \notin DOMAIN transactions)
                    /\ calls'[Query].pc = "failed" => calls'[Query].err = "NotFound"
              /\ calls'[Query].pc = "done" =>
                    /\ r.transaction = transactions[id]
                    /\ {i.id : i \in r.items} = K
                    /\ \A i \in r.items :
                          /\ i.transaction_id = id
                          /\ i.quantity = transaction_items[i.id].quantity
                          /\ i.unit_price = transaction_items[i.id].unit_price
                          /\ i.product_id = transaction_items[i.id].product_id
                          /\ i.product_name = products[i.product_id].name
                    /\ \A c \in SaleCalls :
                          (calls[c].pc = "done" /\ calls[c].result.id = id) =>
                            LET items == calls[c].input.items
                            IN  /\ Cardinality(r.items) = Len(items)
                                /\ \A n \in DOMAIN items :
                                      Cardinality(Selling(r.items, items[n].product_id,
                                                          items[n].quantity,
                                                          items[n].unit_price))
                                      = Cardinality({j \in DOMAIN items : items[j] = items[n]})]_vars

\* A receipt of a completed sale of two items listed both, beside the items
\* of another transaction; and the state holds a transaction id without one.
C22_Witness ==
    /\ calls[Query].op = "generateReceipt" /\ calls[Query].pc = "done"
    /\ Cardinality(calls[Query].result.items) = 2
    /\ \E c \in SaleCalls :
         /\ calls[c].pc = "done"
         /\ calls[c].result.id = calls[Query].input.transaction_id
    /\ \E k \in DOMAIN transaction_items :
         transaction_items[k].transaction_id # calls[Query].input.transaction_id

\* C23: no createSale call is refused for its receipt number, and the stored
\* transactions carry pairwise different receipt numbers, each made of RCP-
\* and the digits of a clock value.
C23_ReceiptUnique ==
    /\ \A c \in SaleCalls : calls[c].err # "UniqueViolation"
    /\ \A t, u \in DOMAIN transactions :
         t # u => transactions[t].receipt_number # transactions[u].receipt_number
    /\ \A t \in DOMAIN transactions :
         /\ transactions[t].receipt_number[1] = "RCP-"
         /\ transactions[t].receipt_number[2] \in 0..MaxClock

\* C24: a createStockAdjustment call that has ended with its audit row
\* stored has returned, and the step that ended it wrote the computed
\* stock_quantity to the product.
C24_AuditPaired ==
    /\ [](\A c \in AdjustmentCalls :
            (/\ calls[c].pc \in {"done", "failed"}
             /\ calls[c].loc.adjustment_id \in DOMAIN stock_adjustments)
            => calls[c].pc = "done")
    /\ [][\A c \in Calls :
            (/\ calls'[c] # calls[c]
             /\ calls'[c].op = "createStockAdjustment"
             /\ calls'[c].pc \in {"done", "failed"}
             /\ calls'[c].loc.adjustment_id \in DOMAIN stock_adjustments)
            => products'[calls'[c].input.product_id].stock_quantity
                 = calls'[c].loc.newStockQuantity]_vars

\* The step c takes is createSale's insert of an item whose product_id
\* matches no product.
MissingProductStep(c) ==
    /\ calls[c].op = "createSale" /\ calls[c].pc = "insert_item"
    /\ calls'[c] # calls[c]
    /\ calls[c].input.items[calls[c].loc.i].product_id \notin DOMAIN products

\* C25: createSale makes no product-existence check of its own; the insert of
\* an item whose product_id matches no product is refused by the foreign key
\* of transaction_items.product_id: the call fails with that error and the
\* step stores no item and changes no product and no transaction.
C25_MissingProductRefused ==
    [][\A c \in Calls :
         MissingProductStep(c) =>
            /\ calls'[c].pc = "failed"
            /\ calls'[c].err = "ForeignKeyViolation"
            /\ transaction_items' = transaction_items
            /\ products' = products
            /\ transactions' = transactions]_vars

\* A sale has failed on its second item, of product 9, after its transaction
\* and its first item were stored.
C25_Witness ==
    \E c \in SaleCalls :
        /\ calls[c].pc = "failed" /\ calls[c].err = "ForeignKeyViolation"
        /\ calls[c].loc.i = 2
        /\ calls[c].input.items[2].product_id \notin DOMAIN products
        /\ calls[c].loc.transaction_id \in DOMAIN transactions
        /\ \E k \in DOMAIN transaction_items :
              transaction_items[k].transaction_id = calls[c].loc.transaction_id

\* C25 as stated: the insert of an item whose product_id matches no product
\* raises no error and stores the item, and the sale goes on.
C25_Original ==
    [][\A c \in Calls :
         MissingProductStep(c) =>
            /\ calls'[c].pc # "failed"
            /\ transaction_items' # transaction_items]_vars

\* The quantities of product p sold by the createSale calls in the slots cs.
RECURSIVE SoldBy(_, _)
SoldBy(cs, p) ==
    IF cs = {} THEN 0
    ELSE LET c == CHOOSE d \in cs : TRUE
         IN  QuantitySold(calls[c].input.items, p) + SoldBy(cs \ {c}, p)

\* Every call issued so far is a createSale call that has returned.
OnlySalesReturned ==
    \A c \in Calls : calls[c].op = "none" \/
                      (calls[c].op = "createSale" /\ calls[c].pc = "done")

\* C26: once all of the createSale calls, however their statements were
\* interleaved, have returned, each product's stock_quantity is its initial
\* value minus the sum of the quantities the calls sold of it.
C26_NoLostDecrement ==
    OnlySalesReturned =>
        \A p \in DOMAIN SeededProducts :
            products[p].stock_quantity =
                SeededProducts[p].stock_quantity - SoldBy(SaleCalls, p)

\* Two sales of product 1 have returned whose statements were interleaved:
\* an item of the second transaction was stored before an item of the first.
C26_Witness ==
    /\ OnlySalesReturned
    /\ \A c \in Calls : /\ calls[c].op = "createSale"
                        /\ QuantitySold(calls[c].input.items, 1) > 0
    /\ \E k, l \in DOMAIN transaction_items :
          /\ k < l
          /\ transaction_items[k].transaction_id = 2
          /\ transaction_items[l].transaction_id = 1
    /\ products[1].stock_quantity < SeededProducts[1].stock_quantity - 2

\* The range names calendar dates: both ends are midnights.
CalendarDates(input) ==
    /\ HasRange(input)
    /\ input.start_date % DayLength = 0
    /\ input.end_date % DayLength = 0

\* The completed transactions created from start_date to the instant
\* end_date, and those created later on the day of end_date.
UntilEndDate(input) ==
    {t \in DOMAIN transactions :
        /\ transactions[t].status = "completed"
        /\ transactions[t].created_at >= input.start_date
        /\ transactions[t].created_at <= input.end_date}

LaterThatDay(input) ==
    {t \in DOMAIN transactions :
        /\ transactions[t].status = "completed"
        /\ transactions[t].created_at >= input.start_date
        /\ transactions[t].created_at > input.end_date
        /\ SameDay(transactions[t].created_at, input.end_date)}

\* The items of the transactions T.
ItemsIn(T) ==
    {k \in DOMAIN transaction_items : transaction_items[k].transaction_id \in T}

\* The step is the statement of getSalesReport that leaves the call at pc.
SalesReportStep(pc) ==
    /\ calls'[Query] # calls[Query]
    /\ calls'[Query].op = "getSalesReport" /\ calls'[Query].pc = pc
    /\ CalendarDates(calls'[Query].input)

\* C27: for a range of calendar dates, getTransactions returns the completed
\* transactions created later on the day of end_date, while the statements of
\* getSalesReport and getProfitLossReport count the transactions created up
\* to the instant end_date only: the metrics, the product sums, the payment
\* method rows and the profit and loss totals are those of the transactions
\* up to that instant.
C27_EndOfDay ==
    /\ [][(ListingStep /\ CalendarDates(calls'[Query].input)) =>
            \A t \in LaterThatDay(calls'[Query].input) :
               \E i \in DOMAIN calls'[Query].result :
                  calls'[Query].result[i] = transactions[t]]_vars
    /\ [][SalesReportStep("top_products") =>
            LET K == ItemsIn(UntilEndDate(calls'[Query].input))
                metrics == calls'[Query].loc.metrics
            IN  /\ metrics.total_transactions = Cardinality(K)
                /\ metrics.total_sales =
                     SumFn([k \in K |->
                        transactions[transaction_items[k].transaction_id].total_amount])]_vars
    /\ [][SalesReportStep("payment_methods") =>
            LET K == ItemsIn(UntilEndDate(calls'[Query].input))
                top == calls'[Query].loc.topProducts
            IN  \A i \in DOMAIN top :
                   top[i].quantity_sold =
                     SumFn([k \in {j \in K : transaction_items[j].product_id
                                                = top[i].product_id} |->
                              transaction_items[k].quantity])]_vars
    /\ [][SalesReportStep("done") =>
            LET T == UntilEndDate(calls'[Query].input)
                stats == calls'[Query].result.sales_by_payment_method
            IN  /\ {s.payment_method : s \in stats}
                     = {transactions[t].payment_method : t \in T}
                /\ \A s \in stats :
                     s.count = Cardinality({t \in T : transactions[t].payment_method
                                                       = s.payment_method})]_vars
    /\ [][(/\ calls'[Query] # calls[Query]
           /\ calls'[Query].op = "getProfitLossReport"
           /\ CalendarDates(calls'[Query].input)) =>
            LET T == UntilEndDate(calls'[Query].input)
                K == ItemsIn(T)
                report == calls'[Query].result
            IN  /\ report.total_transactions =
                     Cardinality({transaction_items[k].transaction_id : k \in K})
                /\ report.total_revenue =
                     SumFn([k \in K |-> transaction_items[k].total_price])]_vars

\* A sales report for the date of today counted nothing while a sale
\* completed later that day is stored.
C27_Witness ==
    /\ calls[Query].op = "getSalesReport" /\ calls[Query].pc = "done"
    /\ calls[Query].input = [start_date |-> 0, end_date |-> 0]
    /\ calls[Query].result.total_transactions = 0
    /\ calls[Query].result.sales_by_payment_method = {}
    /\ calls[Query].result.top_selling_products = <<>>
    /\ LaterThatDay(calls[Query].input) # {}

\* The stock of product p after the call in slot c has run alone on stock s.
StockAfterCall(c, p, s) ==
    IF calls[c].op = "createSale"
    THEN s - QuantitySold(calls[c].input.items, p)
    ELSE IF calls[c].input.product_id = p
         THEN NewStockQuantity(calls[c].input.adjustment_type, s,
                               calls[c].input.quantity_change)
         ELSE s

\* The stocks of product p that running the calls cs one after another, in
\* some order, on stock s may leave.
RECURSIVE SerialStocks(_, _, _)
SerialStocks(cs, p, s) ==
    IF cs = {} THEN {s}
    ELSE UNION {SerialStocks(cs \ {c}, p, StockAfterCall(c, p, s)) : c \in cs}

\* Every call issued so far is a createSale or createStockAdjustment call
\* that has returned.
OnlyStockCallsReturned ==
    \A c \in Calls :
        calls[c].op = "none" \/
        (/\ calls[c].op \in {"createSale", "createStockAdjustment"}
         /\ calls[c].pc = "done")

\* C28: once the createSale and createStockAdjustment calls, however their
\* statements were interleaved, have returned, each product's stock_quantity
\* is one that the same calls leave when run one after another in some order.
C28_Serializable ==
    OnlyStockCallsReturned =>
        \A p \in DOMAIN SeededProducts :
            products[p].stock_quantity \in
                SerialStocks({c \in Calls : calls[c].op # "none"}, p,
                             SeededProducts[p].stock_quantity)

\* C29: in every report returned by getSalesReport the counts of
\* sales_by_payment_method add up to total_transactions and its amounts add
\* up to total_sales.
C29_ReportConsistent ==
    [][(/\ calls'[Query] # calls[Query]
        /\ calls'[Query].op = "getSalesReport"
        /\ calls'[Query].pc = "done") =>
          LET report == calls'[Query].result
              stats  == report.sales_by_payment_method
          IN  /\ SumFn([s \in stats |-> s.count]) = report.total_transactions
              /\ SumFn([s \in stats |-> s.total_amount]) = report.total_sales]_vars

\* The lines "name xquantity - total_price" of the items of transaction t.
SoldLines(t) ==
    {[name |-> products[transaction_items[k].product_id].name,
      quantity |-> transaction_items[k].quantity,
      total_price |-> transaction_items[k].total_price] : k \in ItemsOf(t)}

\* C30: the receipt text downloaded after a sale lists the items, the
\* subtotal, the tax, the discount and the total of the transaction held in
\* lastTransaction when the download was asked for.
C30_ReceiptOfSale ==
    screen.receiptText # <<>> =>
        \E t \in DOMAIN transactions :
           LET text == screen.receiptText[1]
           IN  /\ transactions[t].receipt_number = text.receipt_number
               /\ Len(text.items) = Cardinality(ItemsOf(t))
               /\ {text.items[i] : i \in DOMAIN text.items} = SoldLines(t)
               /\ text.subtotal =
                    SumFn([k \in ItemsOf(t) |-> transaction_items[k].total_price])
               /\ text.tax = transactions[t].tax_amount
               /\ text.discount = transactions[t].discount_amount
               /\ text.total = transactions[t].total_amount

====
